---------------------------- MODULE Spec2Model ----------------------------
(***************************************************************************)
(* trite: the channel-based client of src/client.go (lines 1-858), the     *)
(* older polling client (lines 860-1320), the server start of              *)
(* src/reader.go, the dump mode and the signal handler.                    *)
(*                                                                         *)
(* The specifications of this module share its variables; each one moves   *)
(* the variables of one part of the program and leaves the others alone.   *)
(*   Spec          the client run: the dispatcher of startClient, its one  *)
(*                 download worker, the apply tasks spawned by             *)
(*                 downloadTable, handleApplyError and incErrCount.        *)
(*   FairSpec      the client run under the Go scheduler's fairness, for   *)
(*                 the runs where "use" is accepted.                       *)
(*   SpecDisplay   the display() serializer fed by the display events of   *)
(*                 concurrently restored tables.                           *)
(*   SpecPoll      the polling client and its active counter.              *)
(*   SpecProgress  the progress reader of a download next to display().    *)
(*   SpecStart     startClient from its first check to its report, schema  *)
(*                 by schema.                                              *)
(*   SpecSignal    catchNotifications.                                     *)
(*   SpecServer    startServer and verifyBackup.                           *)
(*   SpecRoundTrip a dump of a source followed by a client run that        *)
(*                 restores it, with the names carried as the code         *)
(*                 carries them.                                           *)
(*   SpecRecorders handleApplyError and incErrCount called by several      *)
(*                 failed applies at once.                                 *)
(*   SpecObjects   the object applier, statement by statement.             *)
(*   SpecReader    the Read calls of one progress reader, with the clock.  *)
(*                                                                         *)
(* A table job is identified by its position in the tables listing.  An    *)
(* error value made by fmt.Errorf is identified by the job that made it    *)
(* (every call returns a fresh pointer, and a job fails at most once).     *)
(***************************************************************************)
EXTENDS Integers, Sequences, FiniteSets, TLC

\* Number of table jobs the dispatcher enqueues in one run.
NumTables == 2

\* Largest number of files whose download is cut short in one run.
MaxMismatch == 1

\* Largest number of Read calls on the progress reader in SpecReader.
MaxReads == 3

\* Last tick of the clock in SpecReader.
MaxClock == 4

\* Number of tables whose events reach display() in SpecDisplay.
NumDisplayTables == 3

\* Number of schemas in the listing of /tables/ in SpecStart.
NumSchemas == 2

\* Largest number of tables in one schema's tables listing in SpecStart.
MaxSchemaTables == 2

\* Largest number of entries of the backup directory and of a directory in
\* it, in SpecServer.
MaxDirEntries == 2

\* Largest number of entries of a directory two levels down, in SpecServer.
MaxLeafEntries == 1

\* Largest number of characters of a table name in SpecRoundTrip.
MaxNameLen == 2

\* Largest number of tables and views of the source in SpecRoundTrip.
MaxSourceTables == 2

\* Number of failed applies whose handleApplyError runs in SpecRecorders.
NumRecorders == 3

\* Largest number of objects in one listing of a schema's triggers, views,
\* procedures or functions, in SpecObjects.
MaxObjects == 2

\* Seconds of the clock over which interrupts are observed in SpecSignal.
MaxTime == 8

\* part_002 line 23: seconds within which a second ctrl+c exits.
signalTimeout == 3

\* The value given to -triteMaxConnections.
TriteMaxConnections == 1

\* Number of tables the polling client starts in SpecPoll.
NumPollTables == 3

\* Largest worker count given to the polling client.
MaxWorkers == 2

Tables == 1..NumTables

NoJob == 0

VARIABLES
    version,      \* "5.5" (legacy: .exp is needed) or "5.6"
    useFails,     \* the server rejects "use <schema>" in this run
    exit,         \* "run", "exit0", "exit1" (os.Exit(1)) or "panic" (log.Panic)
    mainPc,       \* position of startClient
    nextJob,      \* index of the next table of the listing to enqueue
    worker,       \* job the download worker runs, NoJob when it waits on dl
    wgDownload,   \* counter of the download wait-group
    wgApply,      \* counter of the apply wait-group
    reported,     \* errCount as read by startClient after the waits, -1 before
    pc,           \* position of each job (download, then apply task)
    engine,       \* downloadInfo.engine
    fileIdx,      \* loop index over extensions / triteFiles
    triteFiles,   \* downloadInfo.triteFiles, as the sequence of extensions
    mismatch,     \* extensions whose streamed size differed from Content-Length
    staged,       \* files of the job on disk under the .trite name
    final,        \* files of the job on disk under the final name
    tableExists,  \* the table exists in the target schema
    locked,       \* the job's connection holds the write lock on the table
    tx,           \* "none", "open", "committed", "rolledback"
    steps,        \* statements and renames executed by applyTables, in order
    cleanup,      \* cleanup operations executed by handleApplyError, in order
    failedAt,     \* the step whose failure called handleApplyError, "" if none
    applyErr,     \* the error value handleApplyError received, until its switch
    errApply,     \* the package-level errApply* variables, by step
    errCount,     \* the package-level error counter
    incTmp,       \* errCount as read by errCount++, until it is written back
    events,       \* statuses the job sent on displayChan, in order
    skipNotice,   \* the skip notice was printed for the job
    expMissing,   \* the HEAD request for the job's .exp file did not answer 200
    dlDone,       \* wgDownload.Done() was called for the job
    apDone        \* wgApply.Done() was called for the job

VARIABLES
    currentDisplay,  \* display(): currentDisplay
    displayQueue,    \* display(): displayQueue
    displayTable,    \* package-level displayTable
    latest,          \* latest status received by display() for each table
    queuedLatest,    \* latest status received for each table while another
                     \* table was current, "" if none
    sent,            \* number of events each table has sent so far
    printed,         \* status lines printed while processing the last event
    finalLines       \* number of terminal status lines printed per table

VARIABLES
    workers,      \* polling client: the configured worker count, 0 before
    active,       \* polling client: the active counter
    pollWg,       \* polling client: counter of the wait-group wg
    pollPc,       \* polling client: position of startClient
    pollNext,     \* polling client: index of the next table to start
    pollSeen,     \* polling client: the value of active read at line 992
    pollJob,      \* polling client: position of each table's goroutine
    pollEngine,   \* polling client: downloadInfo.engine
    pollIdx,      \* polling client: loop index over extensions
    pollExit      \* polling client: "run", "exit0" or "panic"

VARIABLES
    dlTable,      \* progress: the table the worker is downloading, or NoJob
    downloaded,   \* progress: tables whose downloadTable has returned
    rdPc,         \* progress: position of the reader of the file in transfer
    rdKind,       \* progress: "draw" (drawProgress) or "finish" (finishProgress)
    rdSaw,        \* progress: outcome of the comparison at line 77 or 89
    progLine      \* progress: the last progress line written, with the focus

VARIABLES
    bootPc,       \* startClient by schema: position of startClient
    bootExit,     \* startClient by schema: "run", "exit0", "exit1", "panic"
    bootFailure,  \* startClient by schema: the bootstrap step that failed
    bootVersion,  \* startClient by schema: version, a sequence of characters
    importFlag,   \* startClient by schema: importFlag is not ""
    globalSets,   \* startClient by schema: the "set global" statements sent
    stWorkers,    \* startClient by schema: worker and display() are started
    stListing,    \* startClient by schema: len(tables) of every schema
    schIdx,       \* startClient by schema: index of the schema loop
    tblIdx,       \* startClient by schema: index of the table loop
    stWgDownload, \* startClient by schema: counter of wgDownload
    stWgApply,    \* startClient by schema: counter of wgApply
    stWorker,     \* startClient by schema: job in downloadTable, <<>> if none
    stJobs,       \* startClient by schema: state of every table job
    stApplied     \* startClient by schema: applyObjects calls that returned

VARIABLES
    sigNow,       \* signals: time.Now(), in seconds since the process started
    timer,        \* signals: catchNotifications' timer, ZeroTime at first
    sigChan,      \* signals: number of signals buffered in sigChan (cap 1)
    sigExit,      \* signals: "run" or "exit0"
    termRestored, \* signals: terminal.Restore was called
    sigPrevAt,    \* signals: when the previous handled interrupt arrived
    sigLast       \* signals: what the handler did with the last interrupt

VARIABLES
    srvPc,        \* server: position of startServer
    srvExit,      \* server: "run", "exit1" or "panic"
    backupTree    \* server: the entries of backupPath, in ReadDir order

VARIABLES
    rtPc,         \* round trip: "start", "dump", "list", "client", "done"
    rtExit,       \* round trip: "run", "exit0" or "exit1" of the client
    source,       \* round trip: the tables and views of the source server
    dumpFiles,    \* round trip: the .sql files of the dump's tables dirs
    backupFiles,  \* round trip: the table file sets of the prepared backup
    rtQueue,      \* round trip: jobs the dispatcher has still to hand over
    rtApplying,   \* round trip: jobs whose applyTables has been started
    rtSkipped,    \* round trip: jobs downloadTable returned from early
    target,       \* round trip: the tables of the target server
    rtRestored    \* round trip: jobs that have sent the Restored event

VARIABLES
    recPc,        \* recorders: position of each handleApplyError call
    recTmp,       \* recorders: errCount as read by errCount++
    recErrCount,  \* recorders: the package-level errCount
    recMode,      \* recorders: how each call opened the log, "" before
    recWritten,   \* recorders: parts of its entry each call has written
    logExists,    \* recorders: the error log file exists
    logFile       \* recorders: content of the error log file, part by part

VARIABLES
    obPc,         \* objects: position of the object applier
    obExit,       \* objects: "run", "exit0", "exit1" or "panic"
    obCalls,      \* objects: the applyObjects calls made, as <<schema, type>>
    obCount,      \* objects: len(objects) of the current call
    obIdx,        \* objects: index of the loop over objects
    obInfos,      \* objects: objInfo of every object fetched in this call
    obLog,        \* objects: what the current call did, in order
    obTx          \* objects: the transactions begun, with their state

VARIABLES
    prPc,         \* reader: "idle", "reading" (inside Read) or "closed"
    prNow,        \* reader: time.Now(), in clock ticks
    lastDraw,     \* reader: r.lastDraw, ZeroTime when zero
    prReads,      \* reader: number of Read calls begun
    draws         \* reader: the calls of the draw callback, in order

mainVars == <<mainPc, nextJob, reported>>
wgVars == <<wgDownload, wgApply, dlDone, apDone>>
fileVars == <<fileIdx, triteFiles, mismatch, staged, final>>
dbVars == <<tableExists, locked, tx, steps>>
errVars == <<cleanup, failedAt, applyErr, errApply, errCount, incTmp>>
clientVars ==
    <<version, useFails, exit, mainVars, worker, wgVars, pc, engine, fileVars,
      dbVars, errVars, events, skipNotice, expMissing>>
displayVars ==
    <<currentDisplay, displayQueue, displayTable, latest, queuedLatest, sent,
      printed, finalLines>>
pollVars ==
    <<workers, active, pollWg, pollPc, pollNext, pollSeen, pollJob, pollEngine,
      pollIdx, pollExit>>
progVars == <<dlTable, downloaded, rdPc, rdKind, rdSaw, progLine>>
startVars ==
    <<bootPc, bootExit, bootFailure, bootVersion, importFlag, globalSets,
      stWorkers,
      stListing, schIdx, tblIdx, stWgDownload, stWgApply, stWorker, stJobs,
      stApplied>>
signalVars ==
    <<sigNow, timer, sigChan, sigExit, termRestored, sigPrevAt, sigLast>>
serverVars == <<srvPc, srvExit, backupTree>>
roundTripVars ==
    <<rtPc, rtExit, source, dumpFiles, backupFiles, rtQueue, rtApplying,
      rtSkipped, target, rtRestored>>
recVars ==
    <<recPc, recTmp, recErrCount, recMode, recWritten, logExists, logFile>>
objVars == <<obPc, obExit, obCalls, obCount, obIdx, obInfos, obLog, obTx>>
readerVars == <<prPc, prNow, lastDraw, prReads, draws>>
outsideClient ==
    <<displayVars, pollVars, progVars, startVars, signalVars, serverVars,
      roundTripVars, recVars, objVars, readerVars>>
outsideDisplay ==
    <<clientVars, pollVars, progVars, startVars, signalVars, serverVars,
      roundTripVars, recVars, objVars, readerVars>>
outsidePoll ==
    <<clientVars, displayVars, progVars, startVars, signalVars, serverVars,
      roundTripVars, recVars, objVars, readerVars>>
outsideProgress ==
    <<clientVars, pollVars, startVars, signalVars, serverVars, roundTripVars,
      recVars, objVars, readerVars>>
outsideStart ==
    <<clientVars, displayVars, pollVars, progVars, signalVars, serverVars,
      roundTripVars, recVars, objVars, readerVars>>
outsideSignal ==
    <<clientVars, displayVars, pollVars, progVars, startVars, serverVars,
      roundTripVars, recVars, objVars, readerVars>>
outsideServer ==
    <<clientVars, displayVars, pollVars, progVars, startVars, signalVars,
      roundTripVars, recVars, objVars, readerVars>>
outsideRoundTrip ==
    <<clientVars, displayVars, pollVars, progVars, startVars, signalVars,
      serverVars, recVars, objVars, readerVars>>
outsideRecorders ==
    <<clientVars, displayVars, pollVars, progVars, startVars, signalVars,
      serverVars, roundTripVars, objVars, readerVars>>
outsideObjects ==
    <<clientVars, displayVars, pollVars, progVars, startVars, signalVars,
      serverVars, roundTripVars, recVars, readerVars>>
outsideReader ==
    <<clientVars, displayVars, pollVars, progVars, startVars, signalVars,
      serverVars, roundTripVars, recVars, objVars>>
vars ==
    <<clientVars, displayVars, pollVars, progVars, startVars, signalVars,
      serverVars, roundTripVars, recVars, objVars, readerVars>>


-----------------------------------------------------------------------------
(* Pure helpers *)

SeqToSet(s) == {s[i] : i \in 1..Len(s)}

\* strings.HasPrefix(version, "5.1") || strings.HasPrefix(version, "5.5")
Legacy(v) == v = "5.5"

\* The extensions appended by downloadTable for the probed engine.
Extensions(eng, v) ==
    IF eng = "InnoDB"
    THEN (IF Legacy(v) THEN <<".exp">> ELSE <<>>) \o <<".ibd">>
    ELSE IF eng = "MyISAM" THEN <<".MYI", ".MYD", ".frm">>
    ELSE <<>>

Running == exit = "run"

RECURSIVE CountUpTo(_, _)
CountUpTo(f, n) == IF n = 0 THEN 0 ELSE Cardinality(f[n]) + CountUpTo(f, n - 1)

\* Number of downloads cut short so far.
Mismatches == CountUpTo(mismatch, NumTables)

InitDisplay ==
    /\ currentDisplay = [fqTable |-> NoJob, status |-> ""]
    /\ displayQueue = <<>>
    /\ displayTable = NoJob
    /\ latest = [t \in 1..NumDisplayTables |-> ""]
    /\ queuedLatest = [t \in 1..NumDisplayTables |-> ""]
    /\ sent = [t \in 1..NumDisplayTables |-> 0]
    /\ printed = <<>>
    /\ finalLines = [t \in 1..NumDisplayTables |-> 0]

\* The state of startClient when the worker and display() have been started
\* and no table has been enqueued yet.
InitClient ==
    /\ version \in {"5.5", "5.6"}
    /\ useFails \in BOOLEAN
    /\ exit = "run"
    /\ mainPc = "enqueue"
    /\ nextJob = 1
    /\ reported = -1
    /\ worker = NoJob
    /\ wgDownload = 0
    /\ wgApply = 0
    /\ dlDone = [t \in Tables |-> FALSE]
    /\ apDone = [t \in Tables |-> FALSE]
    /\ pc = [t \in Tables |-> "listed"]
    /\ engine = [t \in Tables |-> ""]
    /\ fileIdx = [t \in Tables |-> 1]
    /\ triteFiles = [t \in Tables |-> <<>>]
    /\ mismatch = [t \in Tables |-> {}]
    /\ staged = [t \in Tables |-> {}]
    /\ final = [t \in Tables |-> {}]
    /\ \E before \in BOOLEAN : tableExists = [t \in Tables |-> before]
    /\ locked = [t \in Tables |-> FALSE]
    /\ tx = [t \in Tables |-> "none"]
    /\ steps = [t \in Tables |-> <<>>]
    /\ cleanup = [t \in Tables |-> <<>>]
    /\ failedAt = [t \in Tables |-> ""]
    /\ applyErr = [t \in Tables |-> NoJob]
    /\ errApply = [k \in {"Drop", "Create", "Discard", "Lock", "Rename",
                          "Import", "Analyze", "Unlock"} |-> NoJob]
    /\ errCount = 0
    /\ incTmp = [t \in Tables |-> 0]
    /\ events = [t \in Tables |-> <<>>]
    /\ skipNotice = [t \in Tables |-> FALSE]
    /\ expMissing = [t \in Tables |-> FALSE]

\* The polling client before startClient(url, port, workers, dbi) is called.
InitPoll ==
    /\ workers = 0
    /\ active = 0
    /\ pollWg = 0
    /\ pollPc = "start"
    /\ pollNext = 1
    /\ pollSeen = 0
    /\ pollJob = [t \in 1..NumPollTables |-> "listed"]
    /\ pollEngine = [t \in 1..NumPollTables |-> ""]
    /\ pollIdx = [t \in 1..NumPollTables |-> 1]
    /\ pollExit = "run"

\* No download is running and no progress line has been written.
InitProgress ==
    /\ dlTable = NoJob
    /\ downloaded = {}
    /\ rdPc = "idle"
    /\ rdKind = ""
    /\ rdSaw = FALSE
    /\ progLine = [table |-> NoJob, focus |-> NoJob, current |-> NoJob]

StJobs == (1..NumSchemas) \X (1..MaxSchemaTables)

\* startClient(clientConfig, dbi) has just been called.
InitStart ==
    /\ bootPc = "connect"
    /\ bootExit = "run"
    /\ bootFailure = ""
    /\ bootVersion = <<>>
    /\ importFlag = FALSE
    /\ globalSets = <<>>
    /\ stWorkers = FALSE
    /\ stListing = [s \in 1..NumSchemas |-> 0]
    /\ schIdx = 1
    /\ tblIdx = 1
    /\ stWgDownload = 0
    /\ stWgApply = 0
    /\ stWorker = <<>>
    /\ stJobs = [j \in StJobs |-> "none"]
    /\ stApplied = <<>>

\* The zero time.Time of "var timer time.Time".
ZeroTime == -1

\* catchNotifications has returned and its goroutine waits on sigChan.
InitSignal ==
    /\ sigNow = 0
    /\ timer = ZeroTime
    /\ sigChan = 0
    /\ sigExit = "run"
    /\ termRestored = FALSE
    /\ sigPrevAt = ZeroTime
    /\ sigLast = [act |-> "", first |-> FALSE, gap |-> 0]

\* startServer has not been called yet.
InitServer ==
    /\ srvPc = "start"
    /\ srvExit = "run"
    /\ backupTree = <<>>

\* Neither the dump nor the client has been run.
InitRoundTrip ==
    /\ rtPc = "start"
    /\ rtExit = "run"
    /\ source = {}
    /\ dumpFiles = {}
    /\ backupFiles = {}
    /\ rtQueue = <<>>
    /\ rtApplying = {}
    /\ rtSkipped = {}
    /\ target = {}
    /\ rtRestored = {}

\* No apply has failed yet.
InitRecorders ==
    /\ recPc = [r \in 1..NumRecorders |-> "idle"]
    /\ recTmp = [r \in 1..NumRecorders |-> 0]
    /\ recErrCount = 0
    /\ recMode = [r \in 1..NumRecorders |-> ""]
    /\ recWritten = [r \in 1..NumRecorders |-> 0]
    /\ logExists = FALSE
    /\ logFile = <<>>

\* Both waits of startClient have returned (line 217); the object loop of
\* line 223 has not started.
InitObjects ==
    /\ obPc = "call"
    /\ obExit = "run"
    /\ obCalls = <<>>
    /\ obCount = 0
    /\ obIdx = 1
    /\ obInfos = <<>>
    /\ obLog = <<>>
    /\ obTx = <<>>

\* The reader of line 509 is built and ReadFrom has not called Read yet.
InitReader ==
    /\ prPc = "idle"
    /\ prNow = 0
    /\ lastDraw = ZeroTime
    /\ prReads = 0
    /\ draws = <<>>

Init ==
    /\ InitClient /\ InitDisplay /\ InitPoll /\ InitProgress /\ InitStart
    /\ InitSignal /\ InitServer /\ InitRoundTrip /\ InitRecorders
    /\ InitObjects
    /\ InitReader

-----------------------------------------------------------------------------
(* startClient: dispatcher *)

\* Faulty variant: a job is received whatever the worker is doing, as if
\* every download had a goroutine of its own.
WorkerReady_Always == TRUE

\* Lines 155-158: dl is unbuffered and read by one goroutine, which receives
\* only when it is at its range loop.
WorkerReady == worker = NoJob

\* wgDownload.Add(1); wgApply.Add(1); dl <- downloadInfo.  dl is unbuffered:
\* the send completes when the one worker is back at its range loop.
Enqueue(t) ==
    /\ Running /\ mainPc = "enqueue" /\ nextJob = t /\ WorkerReady
    /\ pc[t] = "listed"
    /\ wgDownload' = wgDownload + 1
    /\ wgApply' = wgApply + 1
    /\ worker' = t
    /\ pc' = [pc EXCEPT ![t] = "download"]
    /\ nextJob' = nextJob + 1
    /\ UNCHANGED <<version, useFails, exit, mainPc, reported, dlDone, apDone,
                   engine, fileVars, dbVars, errVars, events, skipNotice,
                   expMissing, outsideClient>>

\* The loops over schemas and tables are over: wgDownload.Wait().
WaitDownload ==
    /\ Running /\ mainPc = "enqueue" /\ nextJob > NumTables
    /\ wgDownload = 0
    /\ mainPc' = "waitApply"
    /\ UNCHANGED <<version, useFails, exit, nextJob, reported, worker, wgVars,
                   pc, engine, fileVars, dbVars, errVars, events, skipNotice,
                   expMissing, outsideClient>>

\* Faulty variant: the wait on the apply wait-group is left out.
WaitApplyGuard_Missing == TRUE

\* Line 217: wgApply.Wait() returns when the counter is zero.
WaitApplyGuard == wgApply = 0

\* wgApply.Wait()
WaitApply ==
    /\ Running /\ mainPc = "waitApply"
    /\ WaitApplyGuard
    /\ mainPc' = "objects"
    /\ UNCHANGED <<version, useFails, exit, nextJob, reported, worker, wgVars,
                   pc, engine, fileVars, dbVars, errVars, events, skipNotice,
                   expMissing, outsideClient>>

\* The object applier: applyObjects for every schema and object type.
ApplyObjects ==
    /\ Running /\ mainPc = "objects"
    /\ mainPc' = "report"
    /\ UNCHANGED <<version, useFails, exit, nextJob, reported, worker, wgVars,
                   pc, engine, fileVars, dbVars, errVars, events, skipNotice,
                   expMissing, outsideClient>>

\* errCount := getErrCount(); the summary is printed; startClient returns.
Report ==
    /\ Running /\ mainPc = "report"
    /\ reported' = errCount
    /\ mainPc' = "done"
    /\ exit' = "exit0"
    /\ UNCHANGED <<version, useFails, nextJob, worker, wgVars, pc, engine,
                   fileVars, dbVars, errVars, events, skipNotice, expMissing,
                   outsideClient>>

-----------------------------------------------------------------------------
(* downloadTable, run by the one worker goroutine *)

Send(t, status) == events' = [events EXCEPT ![t] = Append(@, status)]

\* Lines 403-463: send Downloading, probe the engine with HEAD requests.
\* probe is the outcome of the two HEAD requests.  When neither answers 200
\* the skip notice is printed and downloadTable returns; the worker then calls
\* wgDownload.Done() and nothing calls wgApply.Done().
DownloadProbe(t) ==
    /\ Running /\ worker = t /\ pc[t] = "download"
    /\ Send(t, "Downloading")
    /\ \E probe \in {"InnoDB", "MyISAM", "none"} :
        IF probe = "none"
        THEN /\ skipNotice' = [skipNotice EXCEPT ![t] = TRUE]
             /\ pc' = [pc EXCEPT ![t] = "skipped"]
             /\ wgDownload' = wgDownload - 1
             /\ dlDone' = [dlDone EXCEPT ![t] = TRUE]
             /\ worker' = NoJob
             /\ UNCHANGED engine
        ELSE /\ engine' = [engine EXCEPT ![t] = probe]
             /\ pc' = [pc EXCEPT ![t] = "files"]
             /\ UNCHANGED <<skipNotice, wgDownload, dlDone, worker>>
    /\ UNCHANGED <<version, useFails, exit, mainVars, wgApply, apDone,
                   fileVars, dbVars, errVars, expMissing, outsideClient>>

\* Lines 467-533, one iteration of the loop over extensions.  For ".exp" the
\* HEAD response goes through checkHTTP first, which exits with code 1 when the
\* status is not 200; the skip branch after it is never reached.  Otherwise the
\* staging file is created and filled; when the sizes differ it is removed
\* again; in both cases its path is appended to triteFiles.
DownloadFile(t) ==
    /\ Running /\ worker = t /\ pc[t] = "files"
    /\ fileIdx[t] <= Len(Extensions(engine[t], version))
    /\ LET ext == Extensions(engine[t], version)[fileIdx[t]] IN
       \/ /\ ext = ".exp"
          /\ expMissing' = [expMissing EXCEPT ![t] = TRUE]
          /\ exit' = "exit1"
          /\ UNCHANGED fileVars
       \/ /\ \E sizeOk \in BOOLEAN :
               /\ sizeOk \/ Mismatches < MaxMismatch
               /\ staged' = [staged EXCEPT ![t] =
                               IF sizeOk THEN @ \cup {ext} ELSE @ \ {ext}]
               /\ mismatch' = [mismatch EXCEPT ![t] =
                               IF sizeOk THEN @ ELSE @ \cup {ext}]
          /\ triteFiles' = [triteFiles EXCEPT ![t] = Append(@, ext)]
          /\ fileIdx' = [fileIdx EXCEPT ![t] = @ + 1]
          /\ UNCHANGED <<exit, final, expMissing>>
    /\ UNCHANGED <<version, useFails, mainVars, worker, wgVars, pc, engine,
                   dbVars, errVars, events, skipNotice, outsideClient>>

\* Faulty variant: the worker does not come back to its range loop.
WorkerNext_Stuck(t) == t

\* Lines 158-161: after wgDownload.Done() the worker is back at "range dl",
\* ready to receive the next job.
WorkerNext(t) == NoJob

\* Lines 535-538 and 161: go applyTables(...); downloadTable returns and the
\* worker calls wgDownload.Done().
DownloadSpawn(t) ==
    /\ Running /\ worker = t /\ pc[t] = "files"
    /\ fileIdx[t] > Len(Extensions(engine[t], version))
    /\ pc' = [pc EXCEPT ![t] = "apply"]
    /\ fileIdx' = [fileIdx EXCEPT ![t] = 1]
    /\ wgDownload' = wgDownload - 1
    /\ dlDone' = [dlDone EXCEPT ![t] = TRUE]
    /\ worker' = WorkerNext(t)
    /\ UNCHANGED <<version, useFails, exit, mainVars, wgApply, apDone, engine,
                   triteFiles, mismatch, staged, final, dbVars, errVars,
                   events, skipNotice, expMissing, outsideClient>>

-----------------------------------------------------------------------------
(* applyTables, one goroutine per downloaded table *)

\* A step is a pair: the statement, and the file for a rename ("" otherwise).
Stmt(name) == <<name, "">>

Did(t, step) == steps' = [steps EXCEPT ![t] = Append(@, step)]

Goto(t, label) == pc' = [pc EXCEPT ![t] = label]

\* errApplyX = fmt.Errorf(...): the assignment to the package-level variable
\* that precedes every call of handleApplyError.
StepFail(t, kind) ==
    /\ errApply' = [errApply EXCEPT ![kind] = t]
    /\ failedAt' = [failedAt EXCEPT ![t] = kind]
    /\ Goto(t, "handleCall")
    /\ UNCHANGED <<cleanup, applyErr, errCount, incTmp>>

\* Lines 543-552: send Applying, db.Begin(), the two session settings.
ApplyStart(t) ==
    /\ Running /\ pc[t] = "apply"
    /\ Send(t, "Applying")
    /\ tx' = [tx EXCEPT ![t] = "open"]
    /\ Goto(t, "use")
    /\ UNCHANGED <<version, useFails, exit, mainVars, worker, wgVars, engine,
                   fileVars, tableExists, locked, steps, errVars, skipNotice,
                   expMissing, outsideClient>>

\* Line 553: use <schema>; the error (useFails) is assigned and never looked
\* at, so the statement counts as executed either way.
ApplyUse(t) ==
    /\ Running /\ pc[t] = "use"
    /\ Did(t, Stmt("Use"))
    /\ Goto(t, "drop")
    /\ UNCHANGED <<version, useFails, exit, mainVars, worker, wgVars, engine,
                   fileVars, tableExists, locked, tx, errVars, events,
                   skipNotice, expMissing, outsideClient>>

\* Lines 564-571 (InnoDB) and 644-651 (MyISAM): drop table if exists.
ApplyDrop(t) ==
    /\ Running /\ pc[t] = "drop"
    /\ \/ /\ Did(t, Stmt("Drop"))
          /\ tableExists' = [tableExists EXCEPT ![t] = FALSE]
          /\ Goto(t, IF engine[t] = "InnoDB" THEN "create" ELSE "rename")
          /\ UNCHANGED errVars
       \/ /\ StepFail(t, "Drop")
          /\ UNCHANGED <<steps, tableExists>>
    /\ UNCHANGED <<version, useFails, exit, mainVars, worker, wgVars, engine,
                   fileVars, locked, tx, events, skipNotice, expMissing,
                   outsideClient>>

\* Lines 573-580: execute the fetched CREATE TABLE statement.
ApplyCreate(t) ==
    /\ Running /\ pc[t] = "create"
    /\ \/ /\ Did(t, Stmt("Create"))
          /\ tableExists' = [tableExists EXCEPT ![t] = TRUE]
          /\ Goto(t, "discard")
          /\ UNCHANGED errVars
       \/ /\ StepFail(t, "Create")
          /\ UNCHANGED <<steps, tableExists>>
    /\ UNCHANGED <<version, useFails, exit, mainVars, worker, wgVars, engine,
                   fileVars, locked, tx, events, skipNotice, expMissing,
                   outsideClient>>

\* Lines 582-589: alter table ... discard tablespace.
ApplyDiscard(t) ==
    /\ Running /\ pc[t] = "discard"
    /\ \/ /\ Did(t, Stmt("Discard"))
          /\ Goto(t, "lock")
          /\ UNCHANGED errVars
       \/ /\ StepFail(t, "Discard")
          /\ UNCHANGED steps
    /\ UNCHANGED <<version, useFails, exit, mainVars, worker, wgVars, engine,
                   fileVars, tableExists, locked, tx, events, skipNotice,
                   expMissing, outsideClient>>

\* Faulty variant: the table is not locked before its files are renamed.
ApplyLock_NotTaken(t) ==
    /\ Running /\ pc[t] = "lock"
    /\ Goto(t, "rename")
    /\ UNCHANGED <<version, useFails, exit, mainVars, worker, wgVars, engine,
                   fileVars, dbVars, errVars, events, skipNotice, expMissing,
                   outsideClient>>

\* Lines 591-598: lock table ... write.
ApplyLock(t) ==
    /\ Running /\ pc[t] = "lock"
    /\ \/ /\ Did(t, Stmt("Lock"))
          /\ locked' = [locked EXCEPT ![t] = TRUE]
          /\ Goto(t, "rename")
          /\ UNCHANGED errVars
       \/ /\ StepFail(t, "Lock")
          /\ UNCHANGED <<steps, locked>>
    /\ UNCHANGED <<version, useFails, exit, mainVars, worker, wgVars, engine,
                   fileVars, tableExists, tx, events, skipNotice, expMissing,
                   outsideClient>>

\* Lines 600-610 (InnoDB) and 653-662 (MyISAM), one iteration of the loop over
\* triteFiles: os.Rename(triteFile, triteFile without ".trite").  The rename
\* fails when the staged file is missing, and may fail otherwise.
ApplyRename(t) ==
    /\ Running /\ pc[t] = "rename"
    /\ LET f == triteFiles[t][fileIdx[t]] IN
       \/ /\ f \in staged[t]
          /\ staged' = [staged EXCEPT ![t] = @ \ {f}]
          /\ final' = [final EXCEPT ![t] = @ \cup {f}]
          /\ Did(t, <<"Rename", f>>)
          /\ fileIdx' = [fileIdx EXCEPT ![t] = @ + 1]
          /\ IF fileIdx[t] < Len(triteFiles[t])
             THEN UNCHANGED pc
             ELSE Goto(t, IF engine[t] = "InnoDB" THEN "import" ELSE "commit")
          /\ UNCHANGED errVars
       \/ /\ StepFail(t, "Rename")
          /\ UNCHANGED <<steps, staged, final, fileIdx>>
    /\ UNCHANGED <<version, useFails, exit, mainVars, worker, wgVars, engine,
                   triteFiles, mismatch, tableExists, locked, tx, events,
                   skipNotice, expMissing, outsideClient>>

\* Lines 612-619: alter table ... import tablespace.
ApplyImport(t) ==
    /\ Running /\ pc[t] = "import"
    /\ \/ /\ Did(t, Stmt("Import"))
          /\ Goto(t, "analyze")
          /\ UNCHANGED errVars
       \/ /\ StepFail(t, "Import")
          /\ UNCHANGED steps
    /\ UNCHANGED <<version, useFails, exit, mainVars, worker, wgVars, engine,
                   fileVars, tableExists, locked, tx, events, skipNotice,
                   expMissing, outsideClient>>

\* Lines 621-628: analyze local table.
ApplyAnalyze(t) ==
    /\ Running /\ pc[t] = "analyze"
    /\ \/ /\ Did(t, Stmt("Analyze"))
          /\ Goto(t, "unlock")
          /\ UNCHANGED errVars
       \/ /\ StepFail(t, "Analyze")
          /\ UNCHANGED steps
    /\ UNCHANGED <<version, useFails, exit, mainVars, worker, wgVars, engine,
                   fileVars, tableExists, locked, tx, events, skipNotice,
                   expMissing, outsideClient>>

\* Lines 630-637: unlock tables.
ApplyUnlock(t) ==
    /\ Running /\ pc[t] = "unlock"
    /\ \/ /\ Did(t, Stmt("Unlock"))
          /\ locked' = [locked EXCEPT ![t] = FALSE]
          /\ Goto(t, "commit")
          /\ UNCHANGED errVars
       \/ /\ StepFail(t, "Unlock")
          /\ UNCHANGED <<steps, locked>>
    /\ UNCHANGED <<version, useFails, exit, mainVars, worker, wgVars, engine,
                   fileVars, tableExists, tx, events, skipNotice, expMissing,
                   outsideClient>>

\* Faulty variant: the result of tx.Commit() is not checked.
ApplyCommit_Unchecked(t) ==
    /\ Running /\ pc[t] = "commit"
    /\ \/ /\ Did(t, Stmt("Commit"))
          /\ tx' = [tx EXCEPT ![t] = "committed"]
       \/ /\ Did(t, Stmt("Commit"))
          /\ UNCHANGED tx
    /\ Goto(t, "restored")
    /\ UNCHANGED <<version, useFails, exit, mainVars, worker, wgVars, engine,
                   fileVars, tableExists, locked, errVars, events, skipNotice,
                   expMissing, outsideClient>>

\* Lines 639-641 and 664-666: tx.Commit(); checkErr panics when it fails.
ApplyCommit(t) ==
    /\ Running /\ pc[t] = "commit"
    /\ \/ /\ Did(t, Stmt("Commit"))
          /\ tx' = [tx EXCEPT ![t] = "committed"]
          /\ Goto(t, "restored")
          /\ UNCHANGED exit
       \/ /\ exit' = "panic"
          /\ UNCHANGED <<steps, tx, pc>>
    /\ UNCHANGED <<version, useFails, mainVars, worker, wgVars, engine,
                   fileVars, tableExists, locked, errVars, events, skipNotice,
                   expMissing, outsideClient>>

\* Lines 673-674: send Restored.
SendRestored(t) ==
    /\ Running /\ pc[t] = "restored"
    /\ Send(t, "Restored")
    /\ Goto(t, "applyDone")
    /\ UNCHANGED <<version, useFails, exit, mainVars, worker, wgVars, engine,
                   fileVars, dbVars, errVars, skipNotice, expMissing,
                   outsideClient>>

\* Line 676: wgApply.Done().
ApplyFinish(t) ==
    /\ Running /\ pc[t] = "applyDone"
    /\ wgApply' = wgApply - 1
    /\ apDone' = [apDone EXCEPT ![t] = TRUE]
    /\ Goto(t, "done")
    /\ UNCHANGED <<version, useFails, exit, mainVars, worker, wgDownload,
                   dlDone, engine, fileVars, dbVars, errVars, events,
                   skipNotice, expMissing, outsideClient>>

-----------------------------------------------------------------------------
(* handleApplyError and incErrCount *)

\* The order of the cases of the switch at line 742.
CaseOrder ==
    <<"Drop", "Create", "Discard", "Lock", "Rename", "Import", "Analyze", "Unlock">>

\* switch applyErr { case errApplyDrop: ... }: the first case whose
\* package-level variable holds the very error value that was passed in,
\* "" when none does (the switch has no default).
MatchedCase(e) ==
    IF \E i \in 1..Len(CaseOrder) : errApply[CaseOrder[i]] = e
    THEN CaseOrder[CHOOSE i \in 1..Len(CaseOrder) :
                      /\ errApply[CaseOrder[i]] = e
                      /\ \A j \in 1..(i - 1) : errApply[CaseOrder[j]] # e]
    ELSE ""

\* Faulty variant: the Analyze case drops the table as the Import case does.
CleanupOps_AnalyzeDrops(k) ==
    CASE k \in {"Drop", "Create"} -> <<"RemoveStaged", "Rollback">>
      [] k \in {"Discard", "Lock"} -> <<"RemoveStaged", "DropTable", "Rollback">>
      [] k = "Rename" -> <<"RemoveStaged", "UnlockTables", "DropTable", "Rollback">>
      [] k \in {"Import", "Analyze"} -> <<"UnlockTables", "DropTable", "Rollback">>
      [] k = "Unlock" -> <<"Rollback">>
      [] OTHER -> <<>>

\* The body of each case, lines 743-787.
CleanupOps(k) ==
    CASE k \in {"Drop", "Create"} -> <<"RemoveStaged", "Rollback">>
      [] k \in {"Discard", "Lock"} -> <<"RemoveStaged", "DropTable", "Rollback">>
      [] k = "Rename" -> <<"RemoveStaged", "UnlockTables", "DropTable", "Rollback">>
      [] k = "Import" -> <<"UnlockTables", "DropTable", "Rollback">>
      [] k = "Analyze" -> <<"UnlockTables", "Rollback">>
      [] k = "Unlock" -> <<"Rollback">>
      [] OTHER -> <<>>

\* Lines 568, 577, ... and 682-739: the call evaluates its last argument by
\* reading the package-level variable again; the diagnostics are then written
\* to the error log.  When "show engine innodb status" fails on the job's
\* transaction (line 686) checkErr panics.
HandleCall(t) ==
    /\ Running /\ pc[t] = "handleCall"
    /\ \/ /\ applyErr' = [applyErr EXCEPT ![t] = errApply[failedAt[t]]]
          /\ Goto(t, "handleSwitch")
          /\ UNCHANGED exit
       \/ /\ exit' = "panic"
          /\ UNCHANGED <<applyErr, pc>>
    /\ UNCHANGED <<version, useFails, mainVars, worker, wgVars, engine,
                   fileVars, dbVars, cleanup, failedAt, errApply, errCount,
                   incTmp, events, skipNotice, expMissing, outsideClient>>

\* Lines 741-788: the switch and the cleanup of the matching case.  The
\* results of the cleanup statements are discarded by the code; they are
\* modelled as taking effect.  DDL is not undone by the rollback.
HandleCleanup(t) ==
    /\ Running /\ pc[t] = "handleSwitch"
    /\ LET ops == SeqToSet(CleanupOps(MatchedCase(applyErr[t]))) IN
       /\ cleanup' = [cleanup EXCEPT ![t] = CleanupOps(MatchedCase(applyErr[t]))]
       /\ staged' = [staged EXCEPT ![t] =
                        IF "RemoveStaged" \in ops
                        THEN @ \ SeqToSet(triteFiles[t]) ELSE @]
       /\ locked' = [locked EXCEPT ![t] =
                        IF "UnlockTables" \in ops THEN FALSE ELSE @]
       /\ tableExists' = [tableExists EXCEPT ![t] =
                        IF "DropTable" \in ops THEN FALSE ELSE @]
       /\ tx' = [tx EXCEPT ![t] =
                        IF "Rollback" \in ops THEN "rolledback" ELSE @]
    /\ applyErr' = [applyErr EXCEPT ![t] = NoJob]
    /\ Goto(t, "incRead")
    /\ UNCHANGED <<version, useFails, exit, mainVars, worker, wgVars, engine,
                   fileIdx, triteFiles, mismatch, final, steps, failedAt,
                   errApply, errCount, incTmp, events, skipNotice, expMissing,
                   outsideClient>>

\* Lines 250-255, errCount++ (read).  The mutex is a local variable of
\* incErrCount, a new one in every call, so it excludes nobody.
IncRead(t) ==
    /\ Running /\ pc[t] = "incRead"
    /\ incTmp' = [incTmp EXCEPT ![t] = errCount]
    /\ Goto(t, "incWrite")
    /\ UNCHANGED <<version, useFails, exit, mainVars, worker, wgVars, engine,
                   fileVars, dbVars, cleanup, failedAt, applyErr, errApply,
                   errCount, events, skipNotice, expMissing, outsideClient>>

IncValue(t) == incTmp[t] + 1

\* errCount++ (write).
IncWrite(t) ==
    /\ Running /\ pc[t] = "incWrite"
    /\ errCount' = IncValue(t)
    /\ incTmp' = [incTmp EXCEPT ![t] = 0]
    /\ Goto(t, "sendError")
    /\ UNCHANGED <<version, useFails, exit, mainVars, worker, wgVars, engine,
                   fileVars, dbVars, cleanup, failedAt, applyErr, errApply,
                   events, skipNotice, expMissing, outsideClient>>

\* Lines 792-794: send ERROR.
SendError(t) ==
    /\ Running /\ pc[t] = "sendError"
    /\ Send(t, "ERROR")
    /\ Goto(t, "handleDone")
    /\ UNCHANGED <<version, useFails, exit, mainVars, worker, wgVars, engine,
                   fileVars, dbVars, errVars, skipNotice, expMissing,
                   outsideClient>>

\* Faulty variant: applyTables goes on after handleApplyError has returned.
HandleReturns_FallsThrough(t) == Goto(t, "restored")

\* Lines 585, 600, 611 and on: the "return" that follows every call of
\* handleApplyError in applyTables.
HandleReturns(t) == Goto(t, "done")

\* Line 795: wgApply.Done(); handleApplyError and applyTables return.
HandleFinish(t) ==
    /\ Running /\ pc[t] = "handleDone"
    /\ wgApply' = wgApply - 1
    /\ apDone' = [apDone EXCEPT ![t] = TRUE]
    /\ HandleReturns(t)
    /\ UNCHANGED <<version, useFails, exit, mainVars, worker, wgDownload,
                   dlDone, engine, fileVars, dbVars, errVars, events,
                   skipNotice, expMissing, outsideClient>>

-----------------------------------------------------------------------------
(* The client run *)

Next ==
    \/ \E t \in Tables : Enqueue(t)
    \/ WaitDownload
    \/ WaitApply
    \/ ApplyObjects
    \/ Report
    \/ \E t \in Tables : DownloadProbe(t)
    \/ \E t \in Tables : DownloadFile(t)
    \/ \E t \in Tables : DownloadSpawn(t)
    \/ \E t \in Tables : ApplyStart(t)
    \/ \E t \in Tables : ApplyUse(t)
    \/ \E t \in Tables : ApplyDrop(t)
    \/ \E t \in Tables : ApplyCreate(t)
    \/ \E t \in Tables : ApplyDiscard(t)
    \/ \E t \in Tables : ApplyLock(t)
    \/ \E t \in Tables : ApplyRename(t)
    \/ \E t \in Tables : ApplyImport(t)
    \/ \E t \in Tables : ApplyAnalyze(t)
    \/ \E t \in Tables : ApplyUnlock(t)
    \/ \E t \in Tables : ApplyCommit(t)
    \/ \E t \in Tables : SendRestored(t)
    \/ \E t \in Tables : ApplyFinish(t)
    \/ \E t \in Tables : HandleCall(t)
    \/ \E t \in Tables : HandleCleanup(t)
    \/ \E t \in Tables : IncRead(t)
    \/ \E t \in Tables : IncWrite(t)
    \/ \E t \in Tables : SendError(t)
    \/ \E t \in Tables : HandleFinish(t)

Spec == Init /\ [][Next]_vars

\* The steps of startClient's own goroutine.
MainStep ==
    \/ \E t \in Tables : Enqueue(t)
    \/ WaitDownload
    \/ WaitApply
    \/ ApplyObjects
    \/ Report

\* The steps made for job t by the worker and by the job's apply goroutine.
JobStep(t) ==
    \/ DownloadProbe(t) \/ DownloadFile(t) \/ DownloadSpawn(t)
    \/ ApplyStart(t) \/ ApplyUse(t) \/ ApplyDrop(t) \/ ApplyCreate(t)
    \/ ApplyDiscard(t) \/ ApplyLock(t) \/ ApplyRename(t) \/ ApplyImport(t)
    \/ ApplyAnalyze(t) \/ ApplyUnlock(t) \/ ApplyCommit(t)
    \/ SendRestored(t) \/ ApplyFinish(t)
    \/ HandleCall(t) \/ HandleCleanup(t) \/ IncRead(t) \/ IncWrite(t)
    \/ SendError(t) \/ HandleFinish(t)

\* The runs FairSpec follows: the server accepts "use <schema>" and the
\* tables of the listing exist in the target before the run.
FairInit == Init /\ ~useFails /\ \A t \in Tables : tableExists[t]

\* The Go scheduler runs every goroutine that can run, and every request,
\* file operation and statement returns: a goroutine whose next step stays
\* possible takes it.
FairSpec ==
    /\ FairInit /\ [][Next]_vars
    /\ WF_vars(MainStep)
    /\ \A t \in Tables : WF_vars(JobStep(t))

-----------------------------------------------------------------------------
(* display(): the single consumer of displayChan *)

DisplayTables == 1..NumDisplayTables

IsFinal(status) == status = "Restored" \/ status = "ERROR"

Line(e, how) == [fqTable |-> e.fqTable, status |-> e.status, how |-> how]

\* Lines 351-354: the queued terminal statuses, printed in queue order.
Drained(queue) ==
    LET fin == SelectSeq(queue, LAMBDA q : IsFinal(q.status))
    IN  [i \in 1..Len(fin) |-> Line(fin[i], "drain")]

KeepQueued(q, cur) == ~IsFinal(q.status) /\ q.fqTable # cur

\* Lines 355-357: tmpQueue, the queued non-terminal events of other tables.
TmpQueue(queue, cur) == SelectSeq(queue, LAMBDA q : KeepQueued(q, cur))

\* Faulty variant: an event for another table is always appended.
QueueEvent_AlwaysAppend(queue, e) == Append(queue, e)

\* Lines 381-396: replace the queued event of the table, or append.
QueueEvent(queue, e) ==
    IF \E i \in 1..Len(queue) : queue[i].fqTable = e.fqTable
    THEN [i \in 1..Len(queue) |->
             IF queue[i].fqTable = e.fqTable THEN e ELSE queue[i]]
    ELSE Append(queue, e)

\* One iteration of the loop at line 325 for the received event e.
Display(e) ==
    LET cur == IF currentDisplay.fqTable = NoJob THEN e ELSE currentDisplay
        dt == IF displayTable = NoJob /\ cur.status = "Downloading"
              THEN cur.fqTable ELSE displayTable
        tmp == TmpQueue(displayQueue, cur.fqTable)
    IN
    IF cur.fqTable = e.fqTable
    THEN IF ~IsFinal(e.status)
         THEN /\ currentDisplay' = cur
              /\ displayTable' = dt
              /\ printed' = <<Line(e, "inplace")>>
              /\ UNCHANGED displayQueue
         ELSE IF Len(displayQueue) = 0
         THEN /\ currentDisplay' = [cur EXCEPT !.fqTable = NoJob]
              /\ displayTable' = dt
              /\ printed' = <<Line(e, "inplace")>>
              /\ UNCHANGED displayQueue
         ELSE IF Len(tmp) > 0
         THEN /\ displayQueue' = tmp
              /\ currentDisplay' = tmp[1]
              /\ displayTable' = IF tmp[1].status = "Downloading"
                                 THEN tmp[1].fqTable ELSE dt
              /\ printed' = <<Line(e, "inplace")>> \o Drained(displayQueue)
                               \o <<Line(tmp[1], "promote")>>
         ELSE /\ currentDisplay' = [cur EXCEPT !.fqTable = NoJob]
              /\ displayTable' = NoJob
              /\ printed' = <<Line(e, "inplace")>> \o Drained(displayQueue)
              /\ UNCHANGED displayQueue
    ELSE /\ currentDisplay' = cur
         /\ displayTable' = dt
         /\ displayQueue' = QueueEvent(displayQueue, e)
         /\ printed' = <<>>

\* Line 336: the received event is for a table other than the current one
\* (after lines 326-328 have made it current when there was none).
NotCurrent(e) ==
    currentDisplay.fqTable # NoJob /\ currentDisplay.fqTable # e.fqTable

\* Lines 343-346 and 351-354: the lines of a terminal status of table u that
\* end with a newline, among those one iteration printed.
FinalLinesOf(lines, u) ==
    Len(SelectSeq(lines, LAMBDA l : l.fqTable = u /\ IsFinal(l.status)
                                    /\ l.how # "promote"))

\* The record of what display() received and printed: the latest status of
\* the table, the latest one that came while the table was not current, and
\* the number of terminal status lines printed for each table so far.
Received(t, status) ==
    /\ latest' = [latest EXCEPT ![t] = status]
    /\ queuedLatest' =
           IF NotCurrent([fqTable |-> t, status |-> status])
           THEN [queuedLatest EXCEPT ![t] = status]
           ELSE queuedLatest
    /\ finalLines' =
           [u \in DisplayTables |-> finalLines[u] + FinalLinesOf(printed', u)]

\* The statuses a table job sends, in order (downloadTable line 405,
\* applyTables lines 543 and 673, handleApplyError line 793).
NextStatus(n) ==
    CASE n = 0 -> {"Downloading"}
      [] n = 1 -> {"Applying"}
      [] n = 2 -> {"Restored", "ERROR"}
      [] OTHER -> {}

\* Table t sends its next event and display() processes it.  Downloading
\* events arrive in listing order: the one worker starts a download only when
\* the previous downloadTable has returned.
DisplayRecv(t) ==
    /\ IF t = 1 THEN TRUE ELSE sent[t - 1] >= 1
    /\ \E status \in NextStatus(sent[t]) :
        /\ Display([fqTable |-> t, status |-> status])
        /\ Received(t, status)
    /\ sent' = [sent EXCEPT ![t] = @ + 1]
    /\ UNCHANGED outsideDisplay

NextDisplay == \E t \in DisplayTables : DisplayRecv(t)

SpecDisplay == Init /\ [][NextDisplay]_vars

-----------------------------------------------------------------------------
(* The progress reader of src/reader.go next to display() *)

\* displayChan <- e, received and processed by display().
ProgSend(t, status) ==
    /\ Display([fqTable |-> t, status |-> status])
    /\ Received(t, status)
    /\ sent' = [sent EXCEPT ![t] = @ + 1]

\* client.go lines 403-406 and 508-518: the one worker starts downloadTable
\* for the next table of the listing and sends Downloading; a file larger than
\* the progress threshold is read through a progress reader.
ProgStart(t) ==
    /\ dlTable = NoJob /\ sent[t] = 0
    /\ IF t = 1 THEN TRUE ELSE (t - 1) \in downloaded
    /\ ProgSend(t, "Downloading")
    /\ dlTable' = t
    /\ \E big \in BOOLEAN : rdPc' = IF big THEN "read" ELSE "eof"
    /\ UNCHANGED <<downloaded, rdKind, rdSaw, progLine, outsideProgress>>

\* Faulty variant: the reader draws whatever the focus is.
ProgSees_Always == TRUE

\* reader.go lines 77 and 89:
\* getDisplayTable() == strings.TrimPrefix(r.drawPrefix, "Downloading: ").
ProgSees == displayTable = dlTable

\* reader.go lines 34-57 and the comparisons at lines 77 and 89: Read got
\* data (drawProgress) or io.EOF (finishProgress) and reads displayTable.
ProgCheck ==
    /\ dlTable # NoJob /\ rdPc = "read"
    /\ \E kind \in {"draw", "finish"} : rdKind' = kind
    /\ rdSaw' = ProgSees
    /\ rdPc' = "checked"
    /\ UNCHANGED <<dlTable, downloaded, progLine, displayVars,
                   outsideProgress>>

\* reader.go lines 78-83 and 90-99: the draw function writes the progress
\* line when the comparison held; after finishProgress the transfer is over.
ProgDraw ==
    /\ dlTable # NoJob /\ rdPc = "checked"
    /\ progLine' = IF rdSaw
                   THEN [table |-> dlTable, focus |-> displayTable,
                         current |-> currentDisplay.fqTable]
                   ELSE progLine
    /\ rdPc' = IF rdKind = "finish" THEN "eof" ELSE "read"
    /\ rdSaw' = FALSE
    /\ rdKind' = ""
    /\ UNCHANGED <<dlTable, downloaded, displayVars, outsideProgress>>

\* client.go lines 535-539 and 161: downloadTable spawns the apply task and
\* returns.
ProgEnd ==
    /\ dlTable # NoJob /\ rdPc = "eof"
    /\ downloaded' = downloaded \cup {dlTable}
    /\ dlTable' = NoJob
    /\ rdPc' = "idle"
    /\ UNCHANGED <<rdKind, rdSaw, progLine, displayVars, outsideProgress>>

\* client.go lines 543, 673 and 793: the apply task of a downloaded table
\* sends Applying and then its terminal status.
ProgApply(t) ==
    /\ t \in downloaded /\ sent[t] >= 1
    /\ \E status \in NextStatus(sent[t]) : ProgSend(t, status)
    /\ UNCHANGED <<progVars, outsideProgress>>

NextProgress ==
    \/ \E t \in DisplayTables : ProgStart(t)
    \/ ProgCheck
    \/ ProgDraw
    \/ ProgEnd
    \/ \E t \in DisplayTables : ProgApply(t)

SpecProgress == Init /\ [][NextProgress]_vars

-----------------------------------------------------------------------------
(* The polling client: startClient(url, port, workers, dbi), lines 897-1263 *)

PollTables == 1..NumPollTables

PollRunning == pollExit = "run"

PollGoto(t, label) == pollJob' = [pollJob EXCEPT ![t] = label]

\* Line 897: startClient is called with the worker count of the command line.
PollStart(w) ==
    /\ PollRunning /\ pollPc = "start"
    /\ workers' = w
    /\ pollPc' = "read"
    /\ UNCHANGED <<active, pollWg, pollNext, pollSeen, pollJob, pollEngine,
                   pollIdx, pollExit, outsidePoll>>

\* Line 992: the plain (not atomic) read of active by the dispatcher.
PollRead ==
    /\ PollRunning /\ pollPc = "read" /\ pollNext <= NumPollTables
    /\ pollSeen' = active
    /\ pollPc' = "check"
    /\ UNCHANGED <<workers, active, pollWg, pollNext, pollJob, pollEngine,
                   pollIdx, pollExit, outsidePoll>>

\* Faulty variant: the dispatcher lets one job too many through.
PollGuard_OffByOne(seen) == seen <= workers

\* Line 992: if active < int32(workers).
PollGuard(seen) == seen < workers

\* Lines 991-997: break out of the polling loop, or sleep a second and read
\* again.
PollCheck ==
    /\ PollRunning /\ pollPc = "check"
    /\ pollPc' = IF PollGuard(pollSeen) THEN "add" ELSE "read"
    /\ pollSeen' = 0
    /\ UNCHANGED <<workers, active, pollWg, pollNext, pollJob, pollEngine,
                   pollIdx, pollExit, outsidePoll>>

\* Line 999: wg.Add(1).
PollAdd ==
    /\ PollRunning /\ pollPc = "add"
    /\ pollWg' = pollWg + 1
    /\ pollPc' = "inc"
    /\ UNCHANGED <<workers, active, pollNext, pollSeen, pollJob, pollEngine,
                   pollIdx, pollExit, outsidePoll>>

\* Lines 1000-1001: atomic.AddInt32(&active, 1); go downloadTable(...).
PollInc(t) ==
    /\ PollRunning /\ pollPc = "inc" /\ pollNext = t
    /\ active' = active + 1
    /\ PollGoto(t, "probe")
    /\ pollNext' = pollNext + 1
    /\ pollPc' = "read"
    /\ UNCHANGED <<workers, pollWg, pollSeen, pollEngine, pollIdx, pollExit,
                   outsidePoll>>

\* Lines 1073-1110: the two HEAD requests that find the engine; when neither
\* answers 200 the notice is printed and the job goes to lines 1105-1108.
PollProbe(t) ==
    /\ PollRunning /\ pollJob[t] = "probe"
    /\ \E probe \in {"InnoDB", "MyISAM", "none"} :
        IF probe = "none"
        THEN /\ PollGoto(t, "skipDec")
             /\ UNCHANGED pollEngine
        ELSE /\ pollEngine' = [pollEngine EXCEPT ![t] = probe]
             /\ PollGoto(t, "files")
    /\ UNCHANGED <<workers, active, pollWg, pollPc, pollNext, pollSeen,
                   pollIdx, pollExit, outsidePoll>>

\* Lines 1117-1172, one iteration of the loop over extensions: a missing .exp
\* sends the job to lines 1136-1139, otherwise the file is downloaded; a
\* failed request or write panics in checkErr.
PollFile(t) ==
    /\ PollRunning /\ pollJob[t] = "files"
    /\ pollIdx[t] <= Len(Extensions(pollEngine[t], version))
    /\ \/ /\ Extensions(pollEngine[t], version)[pollIdx[t]] = ".exp"
          /\ PollGoto(t, "skipDec")
          /\ UNCHANGED <<pollIdx, pollExit>>
       \/ /\ pollIdx' = [pollIdx EXCEPT ![t] = @ + 1]
          /\ UNCHANGED <<pollJob, pollExit>>
       \/ /\ pollExit' = "panic"
          /\ UNCHANGED <<pollJob, pollIdx>>
    /\ UNCHANGED <<workers, active, pollWg, pollPc, pollNext, pollSeen,
                   pollEngine, outsidePoll>>

\* Lines 1105 and 1136: atomic.AddInt32(active, -1) on the skip paths.
PollSkipDec(t) ==
    /\ PollRunning /\ pollJob[t] = "skipDec"
    /\ active' = active - 1
    /\ PollGoto(t, "skipDone")
    /\ UNCHANGED <<workers, pollWg, pollPc, pollNext, pollSeen, pollEngine,
                   pollIdx, pollExit, outsidePoll>>

\* Lines 1106-1108 and 1137-1139: wg.Done(); return.
PollSkipDone(t) ==
    /\ PollRunning /\ pollJob[t] = "skipDone"
    /\ pollWg' = pollWg - 1
    /\ PollGoto(t, "skipped")
    /\ UNCHANGED <<workers, active, pollPc, pollNext, pollSeen, pollEngine,
                   pollIdx, pollExit, outsidePoll>>

\* Lines 1175-1260: applyTables up to the "has been restored" line; every
\* failing statement or rename panics in checkErr.
PollApply(t) ==
    /\ PollRunning /\ pollJob[t] = "files"
    /\ pollIdx[t] > Len(Extensions(pollEngine[t], version))
    /\ \/ /\ PollGoto(t, "dec")
          /\ UNCHANGED pollExit
       \/ /\ pollExit' = "panic"
          /\ UNCHANGED pollJob
    /\ UNCHANGED <<workers, active, pollWg, pollPc, pollNext, pollSeen,
                   pollEngine, pollIdx, outsidePoll>>

\* Line 1261: atomic.AddInt32(active, -1).
PollDec(t) ==
    /\ PollRunning /\ pollJob[t] = "dec"
    /\ active' = active - 1
    /\ PollGoto(t, "wgDone")
    /\ UNCHANGED <<workers, pollWg, pollPc, pollNext, pollSeen, pollEngine,
                   pollIdx, pollExit, outsidePoll>>

\* Line 1262: wg.Done().
PollDone(t) ==
    /\ PollRunning /\ pollJob[t] = "wgDone"
    /\ pollWg' = pollWg - 1
    /\ PollGoto(t, "done")
    /\ UNCHANGED <<workers, active, pollPc, pollNext, pollSeen, pollEngine,
                   pollIdx, pollExit, outsidePoll>>

\* Lines 1005-1020: wg.Wait(), the object applier, the import flag reset.
PollFinish ==
    /\ PollRunning /\ pollPc = "read" /\ pollNext > NumPollTables
    /\ pollWg = 0
    /\ pollPc' = "done"
    /\ pollExit' = "exit0"
    /\ UNCHANGED <<workers, active, pollWg, pollNext, pollSeen, pollJob,
                   pollEngine, pollIdx, outsidePoll>>

NextPoll ==
    \/ \E w \in 1..MaxWorkers : PollStart(w)
    \/ PollRead
    \/ PollCheck
    \/ PollAdd
    \/ \E t \in PollTables : PollInc(t)
    \/ \E t \in PollTables : PollProbe(t)
    \/ \E t \in PollTables : PollFile(t)
    \/ \E t \in PollTables : PollSkipDec(t)
    \/ \E t \in PollTables : PollSkipDone(t)
    \/ \E t \in PollTables : PollApply(t)
    \/ \E t \in PollTables : PollDec(t)
    \/ \E t \in PollTables : PollDone(t)
    \/ PollFinish

SpecPoll == Init /\ [][NextPoll]_vars

-----------------------------------------------------------------------------
(* startClient(clientConfig, dbi), lines 80-242, schema by schema *)

StartRunning == bootExit = "run"

\* strings.HasPrefix on sequences of characters.
HasPrefix(str, prefix) ==
    Len(str) >= Len(prefix) /\ SubSeq(str, 1, Len(prefix)) = prefix

\* The versions the server may report.
Versions ==
    { <<"5", ".", "1">>, <<"5", ".", "5">>, <<"5", ".", "6">>, <<"1", "0">>,
      <<"5", ".", "7">>, <<"8", ".", "0">> }

\* Line 99.
LegacyVersion(v) ==
    HasPrefix(v, <<"5", ".", "1">>) \/ HasPrefix(v, <<"5", ".", "5">>)

\* Line 105.
ModernVersion(v) ==
    HasPrefix(v, <<"5", ".", "6">>) \/ HasPrefix(v, <<"1", "0">>)

\* The process ends: os.Exit(1), or a panic (checkErr, nil dereference).
BootStop(failure, how) ==
    /\ bootFailure' = failure
    /\ bootExit' = how
    /\ UNCHANGED bootPc

BootGoto(label) ==
    /\ bootPc' = label
    /\ UNCHANGED <<bootExit, bootFailure>>

\* Lines 81-91: dbi.connect(); a failed ping prints the error and exits 1.
\* Lines 105 and 231: db.Exec("set global " + importFlag + "=<value>"); ok
\* tells whether the server executed it.
SetGlobal(value, ok) == [value |-> value, ok |-> ok]

\* Line 231: the error of the reset is assigned and never looked at, so the
\* run goes on the same whether the statement was executed or not.
ResetOutcomes == BOOLEAN

BootConnect ==
    /\ StartRunning /\ bootPc = "connect"
    /\ \/ BootGoto("version")
       \/ BootStop("connect", "exit1")
    /\ UNCHANGED <<bootVersion, importFlag, globalSets, stWorkers, stListing, schIdx,
                   tblIdx, stWgDownload, stWgApply, stWorker, stJobs,
                   stApplied, outsideStart>>

\* Lines 94-112: read the version; a legacy version gets its import flag set,
\* an unsupported one exits 1; a failed query panics in checkErr.
BootVersion ==
    /\ StartRunning /\ bootPc = "version"
    /\ \/ \E v \in Versions :
            /\ bootVersion' = v
            /\ importFlag' = LegacyVersion(v)
            /\ globalSets' = IF LegacyVersion(v)
                             THEN Append(globalSets, SetGlobal(1, TRUE))
                             ELSE globalSets
            /\ IF LegacyVersion(v) \/ ModernVersion(v)
               THEN BootGoto("datadir")
               ELSE BootStop("version", "exit1")
       \/ /\ BootStop("query", "panic")
          /\ UNCHANGED <<bootVersion, importFlag, globalSets>>
    /\ UNCHANGED <<stWorkers, stListing, schIdx, tblIdx, stWgDownload,
                   stWgApply, stWorker, stJobs, stApplied, outsideStart>>

\* Lines 115-128: read datadir and write a test file into it.
BootDatadir ==
    /\ StartRunning /\ bootPc = "datadir"
    /\ \/ BootGoto("head")
       \/ BootStop("datadir", "exit1")
       \/ BootStop("query", "panic")
    /\ UNCHANGED <<bootVersion, importFlag, globalSets, stWorkers, stListing, schIdx,
                   tblIdx, stWgDownload, stWgApply, stWorker, stJobs,
                   stApplied, outsideStart>>

\* Lines 135-146: HEAD /tables/ and /backups/; a request error exits 1.
BootHead ==
    /\ StartRunning /\ bootPc = "head"
    /\ \/ BootGoto("list")
       \/ \E url \in {"tables", "backups"} : BootStop(url, "exit1")
    /\ UNCHANGED <<bootVersion, importFlag, globalSets, stWorkers, stListing, schIdx,
                   tblIdx, stWgDownload, stWgApply, stWorker, stJobs,
                   stApplied, outsideStart>>

\* Lines 149-154: GET /tables/ and parse the schemas.  checkHTTP runs before
\* the request error is looked at: a status other than 200 exits 1, a request
\* error leaves base nil and checkHTTP dereferences it.
BootList ==
    /\ StartRunning /\ bootPc = "list"
    /\ \/ /\ \E listing \in [1..NumSchemas -> 0..MaxSchemaTables] :
                stListing' = listing
          /\ BootGoto("workers")
       \/ /\ BootStop("tablesStatus", "exit1")
          /\ UNCHANGED stListing
       \/ /\ BootStop("tablesGet", "panic")
          /\ UNCHANGED stListing
    /\ UNCHANGED <<bootVersion, importFlag, globalSets, stWorkers, schIdx, tblIdx,
                   stWgDownload, stWgApply, stWorker, stJobs, stApplied,
                   outsideStart>>

\* Lines 156-170: start the download worker and display().
StartWorkers ==
    /\ StartRunning /\ bootPc = "workers"
    /\ stWorkers' = TRUE
    /\ BootGoto("schema")
    /\ UNCHANGED <<bootVersion, importFlag, globalSets, stListing, schIdx, tblIdx,
                   stWgDownload, stWgApply, stWorker, stJobs, stApplied,
                   outsideStart>>

\* Faulty variant: a job is enqueued for a schema without tables.
TablesToEnqueue_AtLeastOne(s) == IF stListing[s] = 0 THEN 1 ELSE stListing[s]

\* Lines 185-186: the tables of schema s the loop enqueues, len(tables).
TablesToEnqueue(s) == stListing[s]

\* Lines 173-185: checkSchema, GET the tables listing of the next schema; an
\* empty listing goes on to the next schema.  A failed request or statement
\* ends the process.
SchemaEnter ==
    /\ StartRunning /\ bootPc = "schema" /\ schIdx <= NumSchemas
    /\ \/ /\ IF TablesToEnqueue(schIdx) = 0
             THEN /\ schIdx' = schIdx + 1
                  /\ UNCHANGED <<bootPc, tblIdx>>
             ELSE /\ bootPc' = "tables"
                  /\ tblIdx' = 1
                  /\ UNCHANGED schIdx
          /\ UNCHANGED bootExit
       \/ /\ \E how \in {"exit1", "panic"} : bootExit' = how
          /\ UNCHANGED <<bootPc, schIdx, tblIdx>>
    /\ UNCHANGED <<bootFailure, bootVersion, importFlag, globalSets, stWorkers, stListing,
                   stWgDownload, stWgApply, stWorker, stJobs, stApplied,
                   outsideStart>>

\* Lines 187-213: wgDownload.Add(1); wgApply.Add(1); dl <- downloadInfo, which
\* completes when the worker is back at its range loop.
StEnqueue ==
    /\ StartRunning /\ bootPc = "tables" /\ stWorker = <<>>
    /\ stWgDownload' = stWgDownload + 1
    /\ stWgApply' = stWgApply + 1
    /\ stWorker' = <<schIdx, tblIdx>>
    /\ stJobs' = [stJobs EXCEPT ![<<schIdx, tblIdx>>] = "download"]
    /\ IF tblIdx < TablesToEnqueue(schIdx)
       THEN /\ tblIdx' = tblIdx + 1
            /\ UNCHANGED <<bootPc, schIdx>>
       ELSE /\ schIdx' = schIdx + 1
            /\ bootPc' = "schema"
            /\ UNCHANGED tblIdx
    /\ UNCHANGED <<bootExit, bootFailure, bootVersion, importFlag, globalSets, stWorkers,
                   stListing, stApplied, outsideStart>>

\* Lines 158-161 and 402-539: downloadTable for job j, then wgDownload.Done().
\* It spawns the apply task, or skips the table (no wgApply.Done()), or exits
\* in checkHTTP.
StDownload(j) ==
    /\ StartRunning /\ stWorker = j
    /\ \/ /\ \E outcome \in {"apply", "skipped"} :
                stJobs' = [stJobs EXCEPT ![j] = outcome]
          /\ stWgDownload' = stWgDownload - 1
          /\ stWorker' = <<>>
          /\ UNCHANGED bootExit
       \/ /\ bootExit' = "exit1"
          /\ UNCHANGED <<stJobs, stWgDownload, stWorker>>
    /\ UNCHANGED <<bootPc, bootFailure, bootVersion, importFlag, globalSets, stWorkers,
                   stListing, schIdx, tblIdx, stWgApply, stApplied,
                   outsideStart>>

\* Lines 542-677 and 680-796: the apply task ends with Restored or ERROR and
\* wgApply.Done(), or panics in checkErr.
StApply(j) ==
    /\ StartRunning /\ stJobs[j] = "apply"
    /\ \/ /\ stJobs' = [stJobs EXCEPT ![j] = "done"]
          /\ stWgApply' = stWgApply - 1
          /\ UNCHANGED bootExit
       \/ /\ bootExit' = "panic"
          /\ UNCHANGED <<stJobs, stWgApply>>
    /\ UNCHANGED <<bootPc, bootFailure, bootVersion, importFlag, globalSets, stWorkers,
                   stListing, schIdx, tblIdx, stWgDownload, stWorker,
                   stApplied, outsideStart>>

\* Line 216: wgDownload.Wait() after the schema loop.
StWaitDownload ==
    /\ StartRunning /\ bootPc = "schema" /\ schIdx > NumSchemas
    /\ stWgDownload = 0
    /\ BootGoto("waitApply")
    /\ UNCHANGED <<bootVersion, importFlag, globalSets, stWorkers, stListing, schIdx,
                   tblIdx, stWgDownload, stWgApply, stWorker, stJobs,
                   stApplied, outsideStart>>

\* Line 217: wgApply.Wait().
StWaitApply ==
    /\ StartRunning /\ bootPc = "waitApply"
    /\ stWgApply = 0
    /\ BootGoto("objects")
    /\ UNCHANGED <<bootVersion, importFlag, globalSets, stWorkers, stListing, schIdx,
                   tblIdx, stWgDownload, stWgApply, stWorker, stJobs,
                   stApplied, outsideStart>>

\* Line 222.
ObjectTypes == <<"trigger", "view", "procedure", "function">>

\* Faulty variant: the object types are the outer loop, the schemas the
\* inner one.
ObjectCall_TypesOutermost(k) ==
    <<((k - 1) % NumSchemas) + 1, ObjectTypes[((k - 1) \div NumSchemas) + 1]>>

\* Lines 223-227: the k-th call of applyObjects, schemas outermost.
ObjectCall(k) ==
    <<((k - 1) \div Len(ObjectTypes)) + 1,
      ObjectTypes[((k - 1) % Len(ObjectTypes)) + 1]>>

\* Lines 223-227 and 799-858: the next applyObjects(db, objectType, schema,
\* taburl); checkHTTP exits and checkErr panics inside it.
StObjects ==
    /\ StartRunning /\ bootPc = "objects"
    /\ Len(stApplied) < NumSchemas * Len(ObjectTypes)
    /\ \/ /\ stApplied' = Append(stApplied, ObjectCall(Len(stApplied) + 1))
          /\ UNCHANGED bootExit
       \/ /\ \E how \in {"exit1", "panic"} : bootExit' = how
          /\ UNCHANGED stApplied
    /\ UNCHANGED <<bootPc, bootFailure, bootVersion, importFlag, globalSets, stWorkers,
                   stListing, schIdx, tblIdx, stWgDownload, stWgApply,
                   stWorker, stJobs, outsideStart>>

\* Lines 229-242: reset the import flag, print the summary, return.
StReport ==
    /\ StartRunning /\ bootPc = "objects"
    /\ Len(stApplied) = NumSchemas * Len(ObjectTypes)
    /\ IF importFlag
       THEN \E ok \in ResetOutcomes :
               globalSets' = Append(globalSets, SetGlobal(0, ok))
       ELSE UNCHANGED globalSets
    /\ bootPc' = "done"
    /\ bootExit' = "exit0"
    /\ UNCHANGED <<bootFailure, bootVersion, importFlag,
                   stWorkers, stListing, schIdx,
                   tblIdx, stWgDownload, stWgApply, stWorker, stJobs,
                   stApplied, outsideStart>>

NextStart ==
    \/ BootConnect
    \/ BootVersion
    \/ BootDatadir
    \/ BootHead
    \/ BootList
    \/ StartWorkers
    \/ SchemaEnter
    \/ StEnqueue
    \/ \E j \in StJobs : StDownload(j)
    \/ \E j \in StJobs : StApply(j)
    \/ StWaitDownload
    \/ StWaitApply
    \/ StObjects
    \/ StReport

SpecStart == Init /\ [][NextStart]_vars

-----------------------------------------------------------------------------
(* catchNotifications, part_002 lines 114-144 *)

\* The largest time.Duration; Sub saturates to it.
MaxDuration == MaxTime + signalTimeout + 1

\* Line 127: time.Now().Sub(timer).  The zero time lies centuries before any
\* time.Now(), so the difference saturates.
SinceTimer == IF timer = ZeroTime THEN MaxDuration ELSE sigNow - timer

\* Faulty variant: an interrupt exactly signalTimeout seconds later exits.
SigWithin_Inclusive(d) == d <= signalTimeout

\* Line 127: ... < time.Second*signalTimeout.
SigWithin(d) == d < signalTimeout

\* A second passes.  The handler goroutine only waits on sigChan, so a
\* buffered signal is taken before the clock moves on.
SigTick ==
    /\ sigExit = "run" /\ sigChan = 0 /\ sigNow < MaxTime
    /\ sigNow' = sigNow + 1
    /\ UNCHANGED <<timer, sigChan, sigExit, termRestored, sigPrevAt, sigLast,
                   outsideSignal>>

\* Lines 120-121: an interrupt is delivered to sigChan, whose buffer holds one
\* signal; signal.Notify drops it when the buffer is full.
SigArrive ==
    /\ sigExit = "run"
    /\ sigChan' = IF sigChan < 1 THEN sigChan + 1 ELSE sigChan
    /\ UNCHANGED <<sigNow, timer, sigExit, termRestored, sigPrevAt, sigLast,
                   outsideSignal>>

\* Lines 125-142, one iteration of the loop over sigChan.
SigHandle ==
    /\ sigExit = "run" /\ sigChan > 0
    /\ sigChan' = sigChan - 1
    /\ IF SigWithin(SinceTimer)
       THEN /\ termRestored' = TRUE
            /\ sigExit' = "exit0"
            /\ UNCHANGED timer
       ELSE /\ timer' = sigNow
            /\ UNCHANGED <<termRestored, sigExit>>
    /\ sigLast' = [act |-> IF SigWithin(SinceTimer) THEN "exit" ELSE "warn",
                   first |-> sigPrevAt = ZeroTime,
                   gap |-> IF sigPrevAt = ZeroTime THEN 0
                           ELSE sigNow - sigPrevAt]
    /\ sigPrevAt' = sigNow
    /\ UNCHANGED <<sigNow, outsideSignal>>

NextSignal ==
    \/ SigTick
    \/ SigArrive
    \/ SigHandle

SpecSignal == Init /\ [][NextSignal]_vars

-----------------------------------------------------------------------------
(* startServer and verifyBackup, src/reader.go lines 129-192 *)

\* A file name is the sequence of its parts between dots: t.ibd, t.exp, and
\* a file called exp, without a dot.
FileNames == { <<"t", "ibd">>, <<"t", "exp">>, <<"exp">> }

File(name) == [isDir |-> FALSE, name |-> name, entries |-> <<>>]

Dir(entries) == [isDir |-> TRUE, name |-> <<"s">>, entries |-> entries]

SeqsUpTo(S, n) == UNION {[1..k -> S] : k \in 0..n}

Files == {File(n) : n \in FileNames}

\* The directories that can be given as backupPath: at most three levels,
\* every directory listed in the order ioutil.ReadDir returns.
LeafDirs == SeqsUpTo(Files, MaxLeafEntries)

MidDirs == SeqsUpTo(Files \cup {Dir(d) : d \in LeafDirs}, MaxDirEntries)

BackupDirs == SeqsUpTo(Files \cup {Dir(d) : d \in MidDirs}, MaxDirEntries)

\* common.go lines 51-58, parseFileName: the second result is the last
\* element of strings.Split(text, ".").
ParseExt(name) == name[Len(name)]

\* verifyBackup (lines 171-192) from entry i of a directory on.
RECURSIVE VerifyFrom(_, _, _)
VerifyFrom(entries, i, flag) ==
    IF i > Len(entries) THEN flag
    ELSE IF entries[i].isDir
         THEN IF VerifyFrom(entries[i].entries, 1, flag)
              THEN TRUE
              ELSE VerifyFrom(entries, i + 1, flag)
         ELSE IF ParseExt(entries[i].name) = "exp"
              THEN TRUE
              ELSE VerifyFrom(entries, i + 1, flag)

verifyBackup(dir, flag) == VerifyFrom(dir, 1, flag)

\* Line 129: startServer is called with a backup directory.
SrvStart(dir) ==
    /\ srvExit = "run" /\ srvPc = "start"
    /\ backupTree' = dir
    /\ srvPc' = "verify"
    /\ UNCHANGED <<srvExit, outsideServer>>

\* Lines 136-144: check := verifyBackup(backupPath, false); the warning and
\* os.Exit(1) when it is false.
SrvVerify ==
    /\ srvExit = "run" /\ srvPc = "verify"
    /\ IF verifyBackup(backupTree, FALSE)
       THEN /\ srvPc' = "listen"
            /\ UNCHANGED srvExit
       ELSE /\ srvPc' = "refused"
            /\ srvExit' = "exit1"
    /\ UNCHANGED <<backupTree, outsideServer>>

\* Lines 147-167: register the handlers and http.ListenAndServe; a port in
\* use exits 1, any other error panics.
SrvListen ==
    /\ srvExit = "run" /\ srvPc = "listen"
    /\ \/ /\ srvPc' = "listening"
          /\ UNCHANGED srvExit
       \/ /\ srvPc' = "portInUse"
          /\ srvExit' = "exit1"
       \/ /\ srvPc' = "listenError"
          /\ srvExit' = "panic"
    /\ UNCHANGED <<backupTree, outsideServer>>

NextServer ==
    \/ \E dir \in BackupDirs : SrvStart(dir)
    \/ SrvVerify
    \/ SrvListen

SpecServer == Init /\ [][NextServer]_vars

-----------------------------------------------------------------------------
(* Dump, then restore: startDump (src/unnamed/part_005 lines 21-156), the  *)
(* listing served by http.FileServer (src/reader.go line 150), and the     *)
(* client of src/client.go (lines 172-215, 402-540, 542-677).  A name is   *)
(* the sequence of its characters.  The run is followed without failing    *)
(* statements, requests or files: those are the matter of Spec.            *)

\* The characters a source table name is made of: a letter and one of the
\* characters html escapes.
NameChars == {"t", "&"}

TableNames == UNION {[1..k -> NameChars] : k \in 1..MaxNameLen}

\* part_005 line 98: the schemas schemaList leaves out, and one it keeps.
SystemSchemas == {"mysql", "information_schema", "performance_schema"}

SourceSchemas == {"app", "mysql"}

\* A base table of one of the two engines, or a view.
SourceKinds == {"InnoDB", "MyISAM", "VIEW"}

SourceObjects == [schema : SourceSchemas, name : TableNames, kind : SourceKinds]

\* The sources of at most n objects, no two of one name in one schema.
RECURSIVE SourcesUpTo(_)
SourcesUpTo(n) ==
    IF n = 0 THEN {{}}
    ELSE LET smaller == SourcesUpTo(n - 1)
         IN  smaller \cup
             UNION { { S \cup {o} :
                         o \in {x \in SourceObjects :
                                  \A y \in S : ~(y.schema = x.schema
                                                  /\ y.name = x.name)} } :
                     S \in smaller }

\* part_005 line 17.
sqlExtension == <<".", "s", "q", "l">>

\* part_005 lines 98, 135: schemaList's filter and table_type = 'BASE TABLE'.
Dumped(o) == o.schema \notin SystemSchemas /\ o.kind # "VIEW"

\* part_005 lines 146-150: the statement show create table returns, written
\* with ";\n" after it.
DumpBody(o) ==
    [stmt |-> [schema |-> o.schema, name |-> o.name, engine |-> o.kind],
     tail |-> ";\n"]

\* What a table copied as files (no statement) was created from.
FromFrm ==
    [stmt |-> [schema |-> "", name |-> <<>>, engine |-> "frm"], tail |-> ""]

\* net/http's htmlReplacer, applied by the FileServer of reader.go line 150
\* to every name of a directory listing.
HtmlEscapeChar(c) ==
    CASE c = "&" -> <<"&", "a", "m", "p", ";">>
      [] c = "<" -> <<"&", "l", "t", ";">>
      [] c = ">" -> <<"&", "g", "t", ";">>
      [] OTHER -> <<c>>

RECURSIVE HtmlEscape(_)
HtmlEscape(str) ==
    IF str = <<>> THEN <<>>
    ELSE HtmlEscapeChar(Head(str)) \o HtmlEscape(Tail(str))

\* client.go line 295, bytes.Trim(a, "/").
RECURSIVE TrimSlash(_)
TrimSlash(str) ==
    IF str = <<>> THEN <<>>
    ELSE IF Head(str) = "/" THEN TrimSlash(Tail(str))
    ELSE IF str[Len(str)] = "/" THEN TrimSlash(SubSeq(str, 1, Len(str) - 1))
    ELSE str

\* client.go lines 281-299, parseAnchor on one text token of the listing:
\* tok.Raw() is the text as it was sent, character references included.
parseAnchor(raw) == TrimSlash(raw)

\* mysqlUTF8.EncodeFilename (client.go lines 204-209): letters stay, any
\* other character becomes @ and its four-digit code.
EncodeChar(c) ==
    CASE c = "&" -> <<"@", "0", "0", "2", "6">>
      [] c = ";" -> <<"@", "0", "0", "3", "b">>
      [] c = "." -> <<"@", "0", "0", "2", "e">>
      [] OTHER -> <<c>>

RECURSIVE EncodeFilename(_)
EncodeFilename(str) ==
    IF str = <<>> THEN <<>>
    ELSE EncodeChar(Head(str)) \o EncodeFilename(Tail(str))

\* The elements of a set in the order of a listing.
RECURSIVE SeqOf(_)
SeqOf(S) ==
    IF S = {} THEN <<>>
    ELSE LET x == CHOOSE y \in S : TRUE IN <<x>> \o SeqOf(S \ {x})

\* client.go lines 178-183, 196: the jobs made of one schema's tables
\* listing, table[:len(table)-4] being the name of each.
ListedJobs(files) ==
    { [schema |-> f.schema,
       table |-> LET text == parseAnchor(HtmlEscape(f.file))
                 IN  SubSeq(text, 1, Len(text) - 4)] : f \in files }

RtRunning == rtExit = "run"

\* The source server as the dump finds it.
RtSource(src) ==
    /\ RtRunning /\ rtPc = "start"
    /\ source' = src
    /\ rtPc' = "dump"
    /\ UNCHANGED <<rtExit, dumpFiles, backupFiles, rtQueue, rtApplying,
                   rtSkipped, target, rtRestored, outsideRoundTrip>>

\* part_005 lines 21-85, startDump: one file tableName+".sql" for every base
\* table of every schema schemaList keeps.  The backup is taken and prepared
\* of the same source: a file set for every dumped table, under the name
\* MySQL gives the table's files.
RtDump ==
    /\ RtRunning /\ rtPc = "dump"
    /\ dumpFiles' = { [schema |-> o.schema,
                       file |-> o.name \o sqlExtension,
                       body |-> DumpBody(o)] : o \in {x \in source : Dumped(x)} }
    /\ backupFiles' = { [schema |-> o.schema,
                         file |-> EncodeFilename(o.name),
                         engine |-> o.kind] : o \in {x \in source : Dumped(x)} }
    /\ rtPc' = "list"
    /\ UNCHANGED <<rtExit, source, rtQueue, rtApplying, rtSkipped, target,
                   rtRestored, outsideRoundTrip>>

\* client.go lines 172-215: the schema loop reads every tables listing and
\* hands a job per entry to the download worker.
RtList ==
    /\ RtRunning /\ rtPc = "list"
    /\ rtQueue' = SeqOf(ListedJobs(dumpFiles))
    /\ rtPc' = "client"
    /\ UNCHANGED <<rtExit, source, dumpFiles, backupFiles, rtApplying,
                   rtSkipped, target, rtRestored, outsideRoundTrip>>

\* The file set the HEAD requests of client.go lines 424-447 find for a job.
BackupOf(j) ==
    { f \in backupFiles :
        f.schema = j.schema /\ f.file = EncodeFilename(j.table) }

\* client.go lines 402-539, downloadTable on the next job: the engine is
\* that of the files found; with neither .ibd nor .MYD it prints the
\* "missing" notice and returns (lines 449-457).
RtDownload ==
    /\ RtRunning /\ rtPc = "client" /\ rtQueue # <<>>
    /\ LET j == Head(rtQueue)
       IN  IF BackupOf(j) = {}
           THEN /\ rtSkipped' = rtSkipped \cup {j}
                /\ UNCHANGED rtApplying
           ELSE /\ rtApplying' = rtApplying \cup
                      { [schema |-> j.schema, table |-> j.table,
                         engine |-> f.engine] : f \in BackupOf(j) }
                /\ UNCHANGED rtSkipped
    /\ rtQueue' = Tail(rtQueue)
    /\ UNCHANGED <<rtPc, rtExit, source, dumpFiles, backupFiles, target,
                   rtRestored, outsideRoundTrip>>

\* The answer to the GET of client.go line 558.
CreateFileOf(a) ==
    { f \in dumpFiles :
        f.schema = a.schema /\ f.file = a.table \o sqlExtension }

\* client.go lines 542-677, applyTables: an InnoDB table is created by
\* executing the body of its .sql file (lines 558-577); a MyISAM table is
\* its renamed files and no statement is fetched (lines 640-662).  Restored
\* is sent and wgApply.Done called (lines 672-675).
RtApply(a) ==
    /\ RtRunning /\ rtPc = "client" /\ a \in rtApplying
    /\ rtApplying' = rtApplying \ {a}
    /\ IF a.engine = "InnoDB"
       THEN IF CreateFileOf(a) = {}
            THEN /\ rtExit' = "exit1"
                 /\ UNCHANGED <<target, rtRestored>>
            ELSE /\ target' = target \cup
                        { [schema |-> a.schema, name |-> f.body.stmt.name,
                           createdFrom |-> f.body] : f \in CreateFileOf(a) }
                 /\ rtRestored' = rtRestored \cup
                        {[schema |-> a.schema, table |-> a.table]}
                 /\ UNCHANGED rtExit
       ELSE /\ target' = target \cup
                   { [schema |-> a.schema, name |-> a.table,
                      createdFrom |-> FromFrm] }
            /\ rtRestored' = rtRestored \cup
                   {[schema |-> a.schema, table |-> a.table]}
            /\ UNCHANGED rtExit
    /\ UNCHANGED <<rtPc, source, dumpFiles, backupFiles, rtQueue, rtSkipped,
                   outsideRoundTrip>>

\* client.go lines 217-242: wgDownload.Wait and wgApply.Wait return once
\* every job was applied; a job that was skipped never calls wgApply.Done
\* and the client waits for ever.
RtFinish ==
    /\ RtRunning /\ rtPc = "client"
    /\ rtQueue = <<>> /\ rtApplying = {} /\ rtSkipped = {}
    /\ rtPc' = "done"
    /\ rtExit' = "exit0"
    /\ UNCHANGED <<source, dumpFiles, backupFiles, rtQueue, rtApplying,
                   rtSkipped, target, rtRestored, outsideRoundTrip>>

NextRoundTrip ==
    \/ \E src \in SourcesUpTo(MaxSourceTables) : RtSource(src)
    \/ RtDump
    \/ RtList
    \/ RtDownload
    \/ \E a \in rtApplying : RtApply(a)
    \/ RtFinish

SpecRoundTrip == Init /\ [][NextRoundTrip]_vars

-----------------------------------------------------------------------------
(* Concurrent error recorders: handleApplyError (src/client.go lines      *)
(* 680-796) and incErrCount (lines 250-256), one call per failed apply,    *)
(* each on the goroutine of its applyTables.                               *)

Recorders == 1..NumRecorders

RecGoto(r, label) == recPc' = [recPc EXCEPT ![r] = label]

\* Lines 712-737: what handleApplyError writes, as the parts of one entry:
\* the error with the InnoDB status, then the process list.
EntryParts == <<"error", "processlist">>

Piece(r, n) == [rec |-> r, part |-> EntryParts[n]]

\* Bytes of a file that nobody wrote, below a write made past its end.
Hole == [rec |-> 0, part |-> "hole"]

\* A write at position pos of a file opened without O_APPEND.
WriteAt(file, pos, piece) ==
    IF pos <= Len(file)
    THEN [file EXCEPT ![pos] = piece]
    ELSE [i \in 1..pos |->
             IF i <= Len(file) THEN file[i]
             ELSE IF i = pos THEN piece ELSE Hole]

\* Line 707: os.OpenFile with O_WRONLY|O_CREATE|O_TRUNC: the file is empty
\* afterwards and the writes go to the descriptor's own offset.
CreateTruncate(file) == [mode |-> "offset", file |-> <<>>]

\* Lines 682-705: an apply has failed; the diagnostics are queried and the
\* error log file is opened with O_WRONLY|O_APPEND, which fails when the
\* file does not exist.  Nothing is locked.
RecOpen(r) ==
    /\ recPc[r] = "idle"
    /\ IF logExists
       THEN /\ RecGoto(r, "logging")
            /\ recMode' = [recMode EXCEPT ![r] = "append"]
       ELSE /\ RecGoto(r, "create")
            /\ UNCHANGED recMode
    /\ UNCHANGED <<recTmp, recErrCount, recWritten, logExists, logFile,
                   outsideRecorders>>

\* Lines 706-709: the append-open has failed; the file is created, or
\* truncated when another call has created it meanwhile.
RecCreate(r) ==
    /\ recPc[r] = "create"
    /\ logExists' = TRUE
    /\ logFile' = CreateTruncate(logFile).file
    /\ recMode' = [recMode EXCEPT ![r] = CreateTruncate(logFile).mode]
    /\ RecGoto(r, "logging")
    /\ UNCHANGED <<recTmp, recErrCount, recWritten, outsideRecorders>>

\* Lines 712-737: the next part of the entry is written, at the end of the
\* file with O_APPEND and at the descriptor's offset without.
RecWrite(r) ==
    /\ recPc[r] = "logging" /\ recWritten[r] < Len(EntryParts)
    /\ logFile' =
          IF recMode[r] = "append"
          THEN Append(logFile, Piece(r, recWritten[r] + 1))
          ELSE WriteAt(logFile, recWritten[r] + 1, Piece(r, recWritten[r] + 1))
    /\ recWritten' = [recWritten EXCEPT ![r] = @ + 1]
    /\ UNCHANGED <<recPc, recTmp, recErrCount, recMode, logExists,
                   outsideRecorders>>

\* Line 739: the entry is written; f.Close().
RecClose(r) ==
    /\ recPc[r] = "logging" /\ recWritten[r] = Len(EntryParts)
    /\ RecGoto(r, "cleanup")
    /\ UNCHANGED <<recTmp, recErrCount, recMode, recWritten, logExists,
                   logFile, outsideRecorders>>

\* Lines 741-788: the cleanup switch; incErrCount is called next.
RecCleanup(r) ==
    /\ recPc[r] = "cleanup"
    /\ RecGoto(r, "incRead")
    /\ UNCHANGED <<recTmp, recErrCount, recMode, recWritten, logExists,
                   logFile, outsideRecorders>>

\* Lines 251-254: mu is a variable of this call, so mu.Lock() always
\* succeeds at once; errCount++ reads the counter.
RecIncRead(r) ==
    /\ recPc[r] = "incRead"
    /\ recTmp' = [recTmp EXCEPT ![r] = recErrCount]
    /\ RecGoto(r, "incWrite")
    /\ UNCHANGED <<recErrCount, recMode, recWritten, logExists, logFile,
                   outsideRecorders>>

RecIncValue(r) == recTmp[r] + 1

\* Lines 254-255: errCount++ writes the counter back; mu.Unlock().
RecIncWrite(r) ==
    /\ recPc[r] = "incWrite"
    /\ recErrCount' = RecIncValue(r)
    /\ RecGoto(r, "done")
    /\ UNCHANGED <<recTmp, recMode, recWritten, logExists, logFile,
                   outsideRecorders>>

NextRecorders ==
    \/ \E r \in Recorders : RecOpen(r)
    \/ \E r \in Recorders : RecCreate(r)
    \/ \E r \in Recorders : RecWrite(r)
    \/ \E r \in Recorders : RecClose(r)
    \/ \E r \in Recorders : RecCleanup(r)
    \/ \E r \in Recorders : RecIncRead(r)
    \/ \E r \in Recorders : RecIncWrite(r)

SpecRecorders == Init /\ [][NextRecorders]_vars

-----------------------------------------------------------------------------
(* The object applier: the loop of startClient (src/client.go lines        *)
(* 219-227) and applyObjects (lines 799-858), statement by statement.      *)

\* Lines 834-845: the session variables an object's definition records, in
\* the order applyObjects looks at them.
SessionVars ==
    <<"sql_mode", "character_set_client", "collation_connection",
      "collation_database">>

\* The definition of an object: for each session variable, whether the
\* recorded value is other than "".
ObjInfos == [1..Len(SessionVars) -> BOOLEAN]

ObRunning == obExit = "run"

ObDid(entry) == obLog' = Append(obLog, entry)

\* Lines 802-803: tx, err := db.Begin() of the call for <<schema, type>>.
TxBegin(call) == [schema |-> call[1], type |-> call[2], state |-> "open"]

\* Faulty variant: the call returns without committing.
TxCommit_Dropped(txs) == txs

\* Lines 855-856: tx.Commit() of the transaction the call began.
TxCommit(txs) == [txs EXCEPT ![Len(txs)].state = "committed"]

ObEntry(op, v) == [obj |-> obIdx, op |-> op, var |-> v]

\* Lines 223-227 and 802-816: the next applyObjects call begins: db.Begin(),
\* "use", the GET of the listing (checkHTTP exits when it does not answer
\* 200) and parseAnchor.  An empty listing goes straight to the commit.
ObBegin ==
    /\ ObRunning /\ obPc = "call"
    /\ Len(obCalls) < NumSchemas * Len(ObjectTypes)
    /\ \/ /\ obCalls' = Append(obCalls, ObjectCall(Len(obCalls) + 1))
          /\ \E n \in 0..MaxObjects :
                /\ obCount' = n
                /\ obPc' = IF n > 0 THEN "drop" ELSE "commit"
          /\ obIdx' = 1
          /\ obInfos' = <<>>
          /\ obLog' = <<>>
          /\ UNCHANGED obExit
       \/ /\ obExit' = "exit1"
          /\ UNCHANGED <<obPc, obCalls, obCount, obIdx, obInfos, obLog>>
    /\ obTx' = Append(obTx, TxBegin(ObjectCall(Len(obCalls) + 1)))
    /\ UNCHANGED outsideObjects

\* Lines 823-824: drop <type> if exists <name>; the result is not looked at.
ObDrop ==
    /\ ObRunning /\ obPc = "drop"
    /\ ObDid(ObEntry("drop", ""))
    /\ obPc' = "fetch"
    /\ UNCHANGED <<obExit, obCalls, obCount, obIdx, obInfos, obTx, outsideObjects>>

\* Lines 825-833: GET the object's file and json.Unmarshal it; checkHTTP
\* exits and checkErr panics.
ObFetch ==
    /\ ObRunning /\ obPc = "fetch"
    /\ \/ /\ \E info \in ObjInfos : obInfos' = Append(obInfos, info)
          /\ ObDid(ObEntry("fetch", ""))
          /\ obPc' = "set"
          /\ UNCHANGED obExit
       \/ /\ \E how \in {"exit1", "panic"} : obExit' = how
          /\ UNCHANGED <<obPc, obInfos, obLog>>
    /\ UNCHANGED <<obCalls, obCount, obIdx, obTx, outsideObjects>>

\* The "set session" statements of lines 835-846 for one definition.
RECURSIVE SetEntries(_, _)
SetEntries(info, v) ==
    IF v > Len(SessionVars) THEN <<>>
    ELSE (IF info[v] THEN <<ObEntry("set", SessionVars[v])>> ELSE <<>>)
         \o SetEntries(info, v + 1)

\* Lines 835-846: the four tests and their "set session" statements.
ObSet ==
    /\ ObRunning /\ obPc = "set"
    /\ obLog' = obLog \o SetEntries(obInfos[obIdx], 1)
    /\ obPc' = "create"
    /\ UNCHANGED <<obExit, obCalls, obCount, obIdx, obInfos, obTx, outsideObjects>>

\* Lines 848-850: execute objInfo.Create; checkErr panics when it fails.
ObCreate ==
    /\ ObRunning /\ obPc = "create"
    /\ \/ /\ ObDid(ObEntry("create", ""))
          /\ IF obIdx < obCount
             THEN obIdx' = obIdx + 1 /\ obPc' = "drop"
             ELSE obPc' = "commit" /\ UNCHANGED obIdx
          /\ UNCHANGED obExit
       \/ /\ obExit' = "panic"
          /\ UNCHANGED <<obPc, obIdx, obLog>>
    /\ UNCHANGED <<obCalls, obCount, obInfos, obTx, outsideObjects>>

\* Lines 855-857: tx.Commit(); checkErr panics when it fails.
ObCommit ==
    /\ ObRunning /\ obPc = "commit"
    /\ \/ /\ obPc' = "call"
          /\ obTx' = TxCommit(obTx)
          /\ UNCHANGED obExit
       \/ /\ obExit' = "panic"
          /\ UNCHANGED <<obPc, obTx>>
    /\ UNCHANGED <<obCalls, obCount, obIdx, obInfos, obLog, outsideObjects>>

\* Lines 229-242: the loops are over; startClient reports and returns.
ObDone ==
    /\ ObRunning /\ obPc = "call"
    /\ Len(obCalls) = NumSchemas * Len(ObjectTypes)
    /\ obPc' = "done"
    /\ obExit' = "exit0"
    /\ UNCHANGED <<obCalls, obCount, obIdx, obInfos, obLog, obTx,
                   outsideObjects>>

NextObjects ==
    \/ ObBegin
    \/ ObDrop
    \/ ObFetch
    \/ ObSet
    \/ ObCreate
    \/ ObCommit
    \/ ObDone

SpecObjects == Init /\ [][NextObjects]_vars

-----------------------------------------------------------------------------
(* The progress reader over time: reader.Read, reader.go lines 34-108 *)

\* Lines 65-68: the draw interval, time.Second when drawInterval is 0 as it
\* is for the reader of client.go line 509; a clock tick is half a second.
DefaultInterval == 2

\* Lines 69-74: drawProgress goes on to draw.
DrawDue == lastDraw = ZeroTime \/ prNow >= lastDraw + DefaultInterval

\* Lines 77-80 and 89-95: the draw callback is called when the table is the
\* one display() shows.
Drawn(focused, last, call) ==
    IF focused
    THEN <<[at |-> prNow, read |-> call, final |-> last]>>
    ELSE <<>>

\* Time passes.
PrTick ==
    /\ prPc # "closed" /\ prNow < MaxClock
    /\ prNow' = prNow + 1
    /\ UNCHANGED <<prPc, lastDraw, prReads, draws, outsideReader>>

\* Lines 36-41 and 103-108: Read is called; when lastDraw is zero,
\* initProgress draws and leaves lastDraw zero.  Then the underlying Read
\* is under way.
PrReadBegin ==
    /\ prPc = "idle" /\ prReads < MaxReads
    /\ prReads' = prReads + 1
    /\ IF lastDraw = ZeroTime
       THEN \E focused \in BOOLEAN :
               draws' = draws \o Drawn(focused, FALSE, prReads + 1)
       ELSE UNCHANGED draws
    /\ prPc' = "reading"
    /\ UNCHANGED <<prNow, lastDraw, outsideReader>>

\* Lines 41-59: the underlying Read returns n bytes and err.  Without an
\* error and with data, drawProgress; at io.EOF, finishProgress, which draws
\* the end and the blank line and zeroes lastDraw.  ReadFrom stops calling
\* Read after an error.
PrReadEnd ==
    /\ prPc = "reading"
    /\ \E n \in {0, 1}, err \in {"nil", "EOF", "other"}, focused \in BOOLEAN :
          /\ IF err = "nil" /\ n > 0 /\ DrawDue
             THEN /\ draws' = draws \o Drawn(focused, FALSE, prReads)
                  /\ lastDraw' = prNow
             ELSE IF err = "EOF" /\ lastDraw # ZeroTime
             THEN /\ draws' = draws \o Drawn(focused, TRUE, prReads)
                                  \o Drawn(focused, TRUE, prReads)
                  /\ lastDraw' = ZeroTime
             ELSE UNCHANGED <<draws, lastDraw>>
          /\ prPc' = IF err = "nil" THEN "idle" ELSE "closed"
    /\ UNCHANGED <<prNow, prReads, outsideReader>>

NextReader ==
    \/ PrTick
    \/ PrReadBegin
    \/ PrReadEnd

SpecReader == Init /\ [][NextReader]_vars

-----------------------------------------------------------------------------
(* Claims about the client run *)

Emitted(t, status) == status \in SeqToSet(events[t])

RenameSteps(files) == [i \in 1..Len(files) |-> <<"Rename", files[i]>>]

InnoDBSteps(files) ==
    <<Stmt("Use"), Stmt("Drop"), Stmt("Create"), Stmt("Discard"), Stmt("Lock")>>
    \o RenameSteps(files)
    \o <<Stmt("Import"), Stmt("Analyze"), Stmt("Unlock"), Stmt("Commit")>>

\* C1 as stated: a table that emitted Restored has a committed transaction
\* whose steps were exactly Use, Drop, Create, Discard, Lock, Rename of every
\* staged file, Import, Analyze, Unlock, Commit for InnoDB, and exactly Drop,
\* Rename of every staged file, Commit for MyISAM.
C1_AsStated ==
    \A t \in Tables : Emitted(t, "Restored") =>
        /\ tx[t] = "committed"
        /\ engine[t] = "InnoDB" => steps[t] = InnoDBSteps(triteFiles[t])
        /\ engine[t] = "MyISAM" =>
             steps[t] = <<Stmt("Drop")>> \o RenameSteps(triteFiles[t])
                           \o <<Stmt("Commit")>>

\* C1 (amended): a table that emitted Restored has a committed transaction
\* whose steps were, in order and each once, Use, Drop, Create, Discard, Lock,
\* Rename of every staged file, Import, Analyze, Unlock, Commit for InnoDB and
\* Use, Drop, Rename of every staged file, Commit for MyISAM; Restored is
\* never sent for a table whose transaction did not commit.
C1_RestoredAfterCommit ==
    \A t \in Tables : Emitted(t, "Restored") =>
        /\ tx[t] = "committed"
        /\ engine[t] = "InnoDB" => steps[t] = InnoDBSteps(triteFiles[t])
        /\ engine[t] = "MyISAM" =>
             steps[t] = <<Stmt("Use"), Stmt("Drop")>> \o RenameSteps(triteFiles[t])
                           \o <<Stmt("Commit")>>

C1_Witness ==
    \E a, b \in Tables :
        /\ engine[a] = "InnoDB" /\ Emitted(a, "Restored") /\ Len(triteFiles[a]) = 2
        /\ engine[b] = "MyISAM" /\ Emitted(b, "Restored")

\* C2: when ERROR has been emitted for a table, handleApplyError has run the
\* cleanup branch of the step that failed for it, rollback included.
C2_ErrorAfterCleanup ==
    \A t \in Tables : Emitted(t, "ERROR") =>
        /\ cleanup[t] = CleanupOps(failedAt[t])
        /\ tx[t] = "rolledback"

\* C3: once ERROR has been emitted for a table, none of its files exists
\* under the .trite staging name.
C3_NoStagedAfterError ==
    \A t \in Tables : Emitted(t, "ERROR") => staged[t] = {}

\* C4: once ERROR has been emitted for an InnoDB table that failed at Drop,
\* Create, Discard or Lock, no table of that name exists in the schema.
C4_NoTableAfterEarlyError ==
    \A t \in Tables :
        ( /\ Emitted(t, "ERROR")
          /\ engine[t] = "InnoDB"
          /\ failedAt[t] \in {"Drop", "Create", "Discard", "Lock"} )
        => ~tableExists[t]

ErrorTables == {t \in Tables : Emitted(t, "ERROR")}

\* C5: the error counter read by startClient after both waits equals the
\* number of tables that emitted ERROR.
C5_CountEqualsErrors ==
    mainPc = "done" => reported = Cardinality(ErrorTables)

\* C6: for a job skipped because neither .ibd nor .MYD answers 200, both
\* wgDownload.Done() and wgApply.Done() have been called once its
\* downloadTable has returned.
C6_SkipDecrementsBoth ==
    \A t \in Tables : pc[t] = "skipped" => dlDone[t] /\ apDone[t]

\* C7: on a legacy version, when the HEAD request for a table's .exp file does
\* not answer 200 the table is skipped: the notice is printed, no staged file
\* of the table exists, neither Restored nor ERROR is emitted for it, and the
\* client does not end with a code other than 0.
C7_ExpMissingSkips ==
    \A t \in Tables : (Legacy(version) /\ expMissing[t]) =>
        /\ skipNotice[t]
        /\ staged[t] = {}
        /\ ~Emitted(t, "Restored") /\ ~Emitted(t, "ERROR")
        /\ exit \in {"run", "exit0"}

ObjectApplierStarted == mainPc \in {"objects", "report", "done"}

\* C8: the object applier starts only when every table job has finished its
\* download and its apply task, each apply task having sent its terminal
\* event and called wgApply.Done().
C8_ObjectsAfterApplies ==
    ObjectApplierStarted =>
        \A t \in Tables :
            /\ dlDone[t] /\ apDone[t] /\ pc[t] = "done"
            /\ Emitted(t, "Restored") \/ Emitted(t, "ERROR")

C8_Witness ==
    /\ mainPc = "objects"
    /\ \E a, b \in Tables : Emitted(a, "Restored") /\ Emitted(b, "ERROR")

\* C10: a table one of whose files was streamed with a size different from
\* Content-Length has, once its job has finished, no file in the data
\* directory, under a staging name or under a final name.
C10_MismatchLeavesNoFile ==
    \A t \in Tables : (mismatch[t] # {} /\ pc[t] = "done") =>
        staged[t] = {} /\ final[t] = {}

\* C11: a table one of whose files was streamed with a size different from
\* Content-Length ends, once its job has finished, with ERROR and never with
\* Restored, the error counter has been incremented, and none of its files
\* exists under the .trite staging name.
C11_MismatchIsApplyError ==
    \A t \in Tables : (mismatch[t] # {} /\ pc[t] = "done") =>
        /\ Emitted(t, "ERROR") /\ ~Emitted(t, "Restored")
        /\ errCount >= 1
        /\ staged[t] = {}

\* C12: a failure of an apply step of one table is local: it never stops the
\* process; a job that failed a step and has finished has emitted ERROR after
\* a cleanup branch ran for it; and when startClient returns, with exit code
\* 0, every enqueued table has emitted its terminal event.
C12_ApplyFailureIsLocal ==
    /\ exit # "panic"
    /\ \A t \in Tables : (failedAt[t] # "" /\ pc[t] = "done") =>
           Emitted(t, "ERROR") /\ cleanup[t] # <<>>
    /\ mainPc = "done" =>
           /\ exit = "exit0"
           /\ \A t \in Tables : Emitted(t, "Restored") \/ Emitted(t, "ERROR")

\* The connections the pool has open: db.Begin() takes one for every apply
\* task and it is held until the transaction commits or rolls back (idle
\* connections are not kept, line 86).
OpenConnections == Cardinality({t \in Tables : tx[t] = "open"})

\* C19: the number of simultaneously open database connections never exceeds
\* the value of -triteMaxConnections.
C19_ConnectionsWithinMax == OpenConnections <= TriteMaxConnections

\* The only apply that has failed so far is that of table t.
OnlyFailure(t) ==
    failedAt[t] # "" /\ \A u \in Tables \ {t} : failedAt[u] = ""

\* The cleanup the failing step calls for, InnoDB.
ListedInnoDB(k) ==
    CASE k \in {"Drop", "Create"} -> {"RemoveStaged", "Rollback"}
      [] k \in {"Discard", "Lock"} -> {"RemoveStaged", "DropTable", "Rollback"}
      [] k = "Rename" -> {"RemoveStaged", "UnlockTables", "DropTable", "Rollback"}
      [] k = "Import" -> {"UnlockTables", "DropTable", "Rollback"}
      [] k = "Analyze" -> {"UnlockTables", "Rollback"}
      [] k = "Unlock" -> {"Rollback"}

\* C21 as stated: when a single apply fails, the cleanup handleApplyError
\* runs is the set listed for the failing step, and for a MyISAM table that
\* failed at Drop or Rename it is removing the staged files and the rollback
\* and nothing else.
C21_AsStated ==
    \A t \in Tables : (OnlyFailure(t) /\ Emitted(t, "ERROR")) =>
        SeqToSet(cleanup[t]) =
            IF engine[t] = "InnoDB" THEN ListedInnoDB(failedAt[t])
            ELSE {"RemoveStaged", "Rollback"}

\* C21 (amended): when a single apply fails, the cleanup handleApplyError
\* runs depends on the failing step alone, whatever the engine: Drop or
\* Create: remove staged files, rollback; Discard or Lock: remove staged
\* files, drop table, rollback; Rename (InnoDB or MyISAM): remove staged
\* files, unlock, drop table, rollback; Import: unlock, drop table, rollback;
\* Analyze: unlock, rollback, the table is not dropped; Unlock: rollback only;
\* and the effects are in place: no staged file is left where they are
\* removed, the lock is released where unlock runs, the table is gone where
\* it is dropped, and the transaction is rolled back.
C21_CleanupByStep ==
    \A t \in Tables : (OnlyFailure(t) /\ Emitted(t, "ERROR")) =>
        /\ SeqToSet(cleanup[t]) = ListedInnoDB(failedAt[t])
        /\ engine[t] = "MyISAM" => failedAt[t] \in {"Drop", "Rename"}
        /\ "RemoveStaged" \in ListedInnoDB(failedAt[t]) => staged[t] = {}
        /\ "UnlockTables" \in ListedInnoDB(failedAt[t]) => ~locked[t]
        /\ "DropTable" \in ListedInnoDB(failedAt[t]) => ~tableExists[t]
        /\ failedAt[t] = "Analyze" => tableExists[t]
        /\ tx[t] = "rolledback"

C21_Witness ==
    \E a \in Tables :
        /\ OnlyFailure(a) /\ Emitted(a, "ERROR")
        /\ engine[a] = "MyISAM" /\ failedAt[a] = "Rename"
        /\ final[a] # {}
        /\ cleanup[a] = <<"RemoveStaged", "UnlockTables", "DropTable", "Rollback">>

\* C22: when the Use step fails for a table, its apply is aborted: none of
\* Drop, Create, Discard, Lock, Rename, Import, Analyze, Unlock or Commit is
\* executed for that table.
C22_UseFailureAborts ==
    useFails =>
        \A t \in Tables : \A i \in 1..Len(steps[t]) : steps[t][i] = Stmt("Use")

Executed(t, name) == \E i \in 1..Len(steps[t]) : steps[t][i] = Stmt(name)

\* A file of table t is moved from its .trite name to its final name.
Renames(t) == final'[t] # final[t]

\* C23 as stated: for every table and both engines, a staged file is renamed
\* to its final name only while the apply task holds the write lock on the
\* table, after a successful Lock and before the Unlock of the transaction.
C23_AsStated ==
    [][\A t \in Tables : Renames(t) =>
            /\ locked[t] /\ locked'[t]
            /\ Executed(t, "Lock") /\ ~Executed(t, "Unlock")]_vars

\* C23 (amended): a staged file of an InnoDB table is renamed to its final
\* name only while the apply task holds the write lock on the table, after a
\* successful Lock and before the Unlock of the same transaction; a staged
\* file of a MyISAM table is renamed with no lock held, after the Drop step
\* of its transaction and before its Commit, while the table does not exist.
C23_RenameUnderLock ==
    [][\A t \in Tables : Renames(t) =>
            IF engine[t] = "InnoDB"
            THEN /\ locked[t] /\ locked'[t]
                 /\ Executed(t, "Lock") /\ ~Executed(t, "Unlock")
                 /\ tx[t] = "open"
            ELSE /\ engine[t] = "MyISAM"
                 /\ ~locked[t] /\ ~tableExists[t]
                 /\ Executed(t, "Drop") /\ ~Executed(t, "Commit")
                 /\ tx[t] = "open"]_vars

C23_Witness ==
    \E a, b \in Tables :
        /\ engine[a] = "InnoDB" /\ final[a] # {} /\ locked[a]
        /\ engine[b] = "MyISAM" /\ final[b] # {} /\ ~locked[b]

\* The dispatcher is at "dl <- downloadInfo" with a job in hand.
AtEnqueue == Running /\ mainPc = "enqueue" /\ nextJob \in Tables

\* C24: the dispatcher's enqueue of a table job never blocks on a busy
\* worker (the jobs go into a channel of unbounded capacity that the
\* configured number of download workers consume): whenever the dispatcher
\* has a job to hand over, the send can complete.
C24_EnqueueNeverBlocks ==
    AtEnqueue => ENABLED Enqueue(nextJob)

\* The display events of a job, in the order applyTables sends them.
EventOrders ==
    { <<"Downloading", "Applying", last>> : last \in {"Restored", "ERROR"} }

IsPrefix(a, b) == Len(a) <= Len(b) /\ a = SubSeq(b, 1, Len(a))

\* C34: the events of a job that is not skipped are at every moment the
\* beginning of Downloading, Applying, then one of Restored and ERROR;
\* wgApply.Done() is called for it only after the terminal event, and a job
\* whose apply task has returned has sent all three; the counter of the
\* apply wait-group is the number of jobs enqueued and not yet done, never
\* negative.
C34_EventsThenDone ==
    /\ \A t \in Tables :
          pc[t] # "skipped" =>
             /\ \E order \in EventOrders : IsPrefix(events[t], order)
             /\ apDone[t] => events[t] \in EventOrders
             /\ pc[t] = "done" => apDone[t]
    /\ wgApply >= 0
    /\ wgApply = Cardinality({t \in Tables : pc[t] # "listed" /\ ~apDone[t]})

\* Both applies are over, one restored and one failed.
C34_Witness ==
    \E t, u \in Tables :
        /\ apDone[t] /\ events[t][3] = "ERROR"
        /\ apDone[u] /\ events[u][3] = "Restored"

\* startClient has returned after the object applier, every job enqueued,
\* received and done and both wait-groups at zero.
Returned ==
    /\ exit = "exit0" /\ mainPc = "done"
    /\ nextJob > NumTables /\ worker = NoJob
    /\ wgDownload = 0 /\ wgApply = 0
    /\ \A t \in Tables : pc[t] = "done" /\ events[t] \in EventOrders

Downloading == {t \in Tables : pc[t] \in {"download", "files"}}

\* The jobs whose apply task has started and has not returned.
Applying == {t \in Tables : Emitted(t, "Applying") /\ ~apDone[t]}

\* C39: at most one downloadTable call is in progress, the one of the job
\* the worker holds, and a job's download starts only when the downloads of
\* all the jobs listed before it have returned.
C39_OneDownloadInOrder ==
    /\ Cardinality(Downloading) <= 1
    /\ Downloading \subseteq {worker}
    /\ \A t, u \in Tables :
          (t < u /\ pc[u] # "listed") => dlDone[t]

\* The apply task of the first table is at its lock statement, past two
\* statements, while the second table is being downloaded.
C39_Witness ==
    /\ 1 \in Applying /\ pc[1] = "lock"
    /\ 2 \in Downloading /\ pc[2] = "files"

-----------------------------------------------------------------------------
(* Claims about display() *)

\* C9: every status line display() prints for a table (in place, in the drain
\* of queued terminal statuses, or on promotion of a queued event to current)
\* carries the status of the most recent event received for that table.
C9_PrintedIsLatest ==
    \A i \in 1..Len(printed) : printed[i].status = latest[printed[i].fqTable]

\* display() has just processed a Restored or ERROR event of the table that
\* was current.
TerminalOfCurrent ==
    /\ Len(printed') >= 1
    /\ printed'[1].how = "inplace" /\ IsFinal(printed'[1].status)

NonTerminal(queue) == SelectSeq(queue, LAMBDA q : ~IsFinal(q.status))

\* C25: when display() has finished processing a Restored or ERROR event for
\* the current table, every terminal-status event that was queued has been
\* printed and removed from the queue, the new current is the oldest
\* remaining queued non-terminal event, and if no such event remains current
\* is cleared.
C25_TerminalDrainsQueue ==
    [][TerminalOfCurrent =>
          /\ \A i \in 1..Len(displayQueue) :
                 IsFinal(displayQueue[i].status) =>
                     \E j \in 1..Len(printed') :
                         printed'[j] = Line(displayQueue[i], "drain")
          /\ \A i \in 1..Len(displayQueue') : ~IsFinal(displayQueue'[i].status)
          /\ IF NonTerminal(displayQueue) # <<>>
             THEN currentDisplay' = NonTerminal(displayQueue)[1]
             ELSE currentDisplay'.fqTable = NoJob]_vars

\* C26: after any sequence of display events, the display queue holds at
\* most one entry per table, and that entry carries the status of the latest
\* event received for that table while it was not current.
C26_QueueLatestPerTable ==
    /\ \A i, j \in 1..Len(displayQueue) :
           displayQueue[i].fqTable = displayQueue[j].fqTable => i = j
    /\ \A i \in 1..Len(displayQueue) :
           displayQueue[i].status = queuedLatest[displayQueue[i].fqTable]

C26_Witness ==
    /\ Len(displayQueue) = 2
    /\ displayQueue[1].status = "Applying"
    /\ displayQueue[2].status = "Restored"
    /\ currentDisplay.fqTable \notin {NoJob, displayQueue[1].fqTable,
                                      displayQueue[2].fqTable}

\* C27: after display() has processed any event, displayTable names the
\* currently focused table: it equals the serializer's current table
\* whenever that table is in Downloading status, and it never names a table
\* that is no longer current.
C27_DisplayTableIsCurrent ==
    /\ ( /\ currentDisplay.fqTable # NoJob
         /\ latest[currentDisplay.fqTable] = "Downloading" )
       => displayTable = currentDisplay.fqTable
    /\ displayTable # NoJob => displayTable = currentDisplay.fqTable

\* display() has received the terminal event of table t.
TerminalReceived(t) == IsFinal(latest[t])

\* C35: display() never has as its current table one whose terminal event it
\* has already received, and once every table has sent its three events the
\* terminal status of every table has been printed.
C35_TerminalsPrinted ==
    /\ \A t \in DisplayTables :
          currentDisplay.fqTable = t => ~TerminalReceived(t)
    /\ (\A t \in DisplayTables : sent[t] = 3) =>
          \A t \in DisplayTables : finalLines[t] >= 1

\* C36: over a run display() prints the terminal status line of a table at
\* most once.
C36_TerminalLineOnce == \A t \in DisplayTables : finalLines[t] <= 1

-----------------------------------------------------------------------------
(* Claims about the polling client *)

PollInFlight ==
    {t \in PollTables : pollJob[t] \in {"probe", "files", "skipDec", "dec"}}

\* C13: in the polling client the active counter is at every instant between
\* 0 and the configured worker count, and it is the number of table jobs
\* whose download or apply is in flight.
C13_ActiveWithinWorkers ==
    pollPc # "start" =>
        /\ 0 <= active /\ active <= workers
        /\ active = Cardinality(PollInFlight)

\* The counter is at the worker count while a job is skipped and another
\* finishes normally, and the dispatcher still has a table to start.
C13_Witness ==
    /\ active = workers /\ workers = MaxWorkers
    /\ pollNext <= NumPollTables
    /\ \E a, b \in PollTables : pollJob[a] = "skipDec" /\ pollJob[b] = "dec"

-----------------------------------------------------------------------------
(* Claims about the progress reader *)

\* C14: a progress line is written for a table only while that table is the
\* focused table (displayTable) and the table display() keeps in place, so
\* that at most one table's in-place line is being updated.
C14_ProgressOnlyWhenFocused ==
    progLine.table # NoJob =>
        progLine.focus = progLine.table /\ progLine.current = progLine.table

\* A progress line has been written for the second table, which got the
\* focus when the first table's terminal status promoted it from the queue.
C14_Witness ==
    /\ progLine.table = 2
    /\ 1 \in downloaded /\ sent[1] = 3

-----------------------------------------------------------------------------
(* Claims about startClient, schema by schema *)

EmptySchemas == {s \in 1..NumSchemas : stListing[s] = 0}

\* C15: for a schema whose tables listing is empty no table job is enqueued
\* and neither wait-group counter is raised (a run whose schemas are all
\* empty finds both counters at zero at the two waits), and when startClient
\* returns, the triggers, views, procedures and functions of that schema
\* have been applied.
C15_EmptySchemaStillGetsObjects ==
    stWorkers =>
        /\ \A j \in StJobs : j[1] \in EmptySchemas => stJobs[j] = "none"
        /\ stWgDownload = Cardinality({j \in StJobs : stJobs[j] = "download"})
        /\ stWgApply =
             Cardinality({j \in StJobs : stJobs[j] \in {"download", "apply"}})
             + Cardinality({j \in StJobs : stJobs[j] = "skipped"})
        /\ EmptySchemas = 1..NumSchemas => stWgDownload = 0 /\ stWgApply = 0
        /\ bootPc = "done" =>
             \A s \in EmptySchemas : \A i \in 1..Len(ObjectTypes) :
                 \E k \in 1..Len(stApplied) :
                     stApplied[k] = <<s, ObjectTypes[i]>>

\* A run over an empty schema and a schema with a table has returned.
C15_Witness ==
    /\ bootPc = "done" /\ bootExit = "exit0"
    /\ stListing[1] = 0 /\ stListing[2] > 0

\* The bootstrap failures the claim names: the connection, the version, the
\* data directory, the two URLs (at the HEAD requests or at the GET of
\* /tables/).
NamedBootFailures ==
    {"connect", "version", "datadir", "tables", "backups", "tablesGet"}

\* C17: on a failed connection, an unsupported version, an unwritable data
\* directory or an unreachable /tables/ or /backups/ URL the process exits
\* with code 1, no worker has been started and no table job enqueued.
C17_BootFailureExitsOne ==
    bootFailure \in NamedBootFailures =>
        /\ bootExit = "exit1"
        /\ ~stWorkers
        /\ \A j \in StJobs : stJobs[j] = "none"

-----------------------------------------------------------------------------
(* Claims about catchNotifications *)

\* C16: a handled interrupt that arrived less than 3 seconds after the
\* previous one restored the terminal and exited with code 0; any other
\* handled interrupt (the first one, or one 3 seconds or more after the
\* previous one) only printed the warning and the process continues.
C16_SecondInterruptExits ==
    /\ sigLast.act # "" =>
         IF ~sigLast.first /\ sigLast.gap < 3
         THEN sigLast.act = "exit" /\ termRestored /\ sigExit = "exit0"
         ELSE sigLast.act = "warn" /\ sigExit = "run"
    /\ sigLast.act = "" => sigExit = "run" /\ ~termRestored

\* An interrupt exactly 3 seconds after a first one was only warned about.
C16_Witness ==
    /\ sigLast.act = "warn" /\ ~sigLast.first /\ sigLast.gap = 3
    /\ sigExit = "run"

-----------------------------------------------------------------------------
(* Claims about startServer *)

\* A regular file whose name ends in ".exp" exists somewhere in the tree.
RECURSIVE HasExpFile(_)
HasExpFile(entries) ==
    \E i \in 1..Len(entries) :
        IF entries[i].isDir
        THEN HasExpFile(entries[i].entries)
        ELSE /\ Len(entries[i].name) >= 2
             /\ entries[i].name[Len(entries[i].name)] = "exp"

\* C18: startServer refuses to start (warning, exit 1, before the port is
\* opened) exactly when no regular file with extension exp exists anywhere in
\* the backup directory tree; when one exists, at any depth and in any
\* directory order, the server goes on to listen.
C18_RefusesUnlessExpFile ==
    /\ srvPc = "refused" => ~HasExpFile(backupTree)
    /\ srvPc \in {"listen", "listening", "portInUse", "listenError"} =>
           HasExpFile(backupTree)

-----------------------------------------------------------------------------
(* Claims about the round trip *)

\* The client has nothing left to do: it has exited, or every job has been
\* through the download worker and no apply task is running.
RtOver ==
    \/ rtExit # "run"
    \/ rtPc = "client" /\ rtQueue = <<>> /\ rtApplying = {}

\* C20: after a dump of the source and a client run against an empty target
\* with that dump and a prepared backup holding a file set for every dumped
\* table, every non-excluded source table exists in the target, created from
\* exactly the CREATE TABLE text the dump wrote, and has emitted Restored.
C20_RoundTrip ==
    RtOver =>
        \A o \in source :
            Dumped(o) =>
                /\ [schema |-> o.schema, name |-> o.name,
                    createdFrom |-> DumpBody(o)] \in target
                /\ [schema |-> o.schema, table |-> o.name] \in rtRestored

-----------------------------------------------------------------------------
(* Claims about concurrent error recorders *)

\* C28: the process-wide error counter is non-decreasing: under every
\* interleaving of concurrent incErrCount calls its value is never smaller
\* than a value it held earlier.
C28_ErrCountNonDecreasing ==
    [][recErrCount' >= recErrCount]_vars

\* The handleApplyError calls that have the error log file open.
LogWriters == {r \in Recorders : recPc[r] = "logging"}

\* C29: concurrent error recorders are serialized: at any instant at most
\* one handleApplyError call is between opening and closing the error log
\* file.
C29_OneLogWriter == Cardinality(LogWriters) <= 1

\* The positions of the parts of r's entry in the log, in the order found.
PartsAt(r) ==
    SelectSeq([i \in 1..Len(logFile) |-> logFile[i]], LAMBDA p : p.rec = r)

\* The log holds every part of r's entry, in the order they were written.
EntryComplete(r) ==
    PartsAt(r) = [n \in 1..Len(EntryParts) |-> Piece(r, n)]

\* C37: once every handleApplyError call has returned, the error log holds
\* the whole entry of every one of them.
C37_EveryEntryLogged ==
    (\A r \in Recorders : recPc[r] = "done") =>
        \A r \in Recorders : EntryComplete(r)

-----------------------------------------------------------------------------
(* Claims about the object applier *)

TypeRank(type) ==
    CASE type = "trigger" -> 1
      [] type = "view" -> 2
      [] type = "procedure" -> 3
      [] type = "function" -> 4

OpRank(op) ==
    CASE op = "drop" -> 1
      [] op = "fetch" -> 2
      [] op = "set" -> 3
      [] op = "create" -> 4

\* The calls go through the schemas in listing order and, within a schema,
\* through triggers, views, procedures, functions.
CallsInOrder ==
    /\ Len(obCalls) >= 1 => obCalls[1] = <<1, "trigger">>
    /\ \A k \in 1..(Len(obCalls) - 1) :
          IF TypeRank(obCalls[k][2]) < 4
          THEN /\ obCalls[k + 1][1] = obCalls[k][1]
               /\ TypeRank(obCalls[k + 1][2]) = TypeRank(obCalls[k][2]) + 1
          ELSE /\ obCalls[k + 1][1] = obCalls[k][1] + 1
               /\ TypeRank(obCalls[k + 1][2]) = 1

EntriesOf(i, op) == {k \in 1..Len(obLog) : obLog[k].obj = i /\ obLog[k].op = op}

\* Object i of the current call: drop, then fetch, then a set for each
\* non-empty variable and for no other, then create.
ObjectInOrder(i) ==
    /\ \A k, l \in 1..Len(obLog) :
          (obLog[k].obj = i /\ obLog[l].obj = i /\ k < l) =>
              /\ OpRank(obLog[k].op) <= OpRank(obLog[l].op)
              /\ obLog[k] # obLog[l]
    /\ EntriesOf(i, "fetch") # {} => EntriesOf(i, "drop") # {}
    /\ EntriesOf(i, "set") # {} => EntriesOf(i, "fetch") # {}
    /\ \A k \in EntriesOf(i, "set") :
          \E v \in 1..Len(SessionVars) :
              obLog[k].var = SessionVars[v] /\ obInfos[i][v]
    /\ EntriesOf(i, "create") # {} =>
          /\ EntriesOf(i, "fetch") # {}
          /\ \A v \in 1..Len(SessionVars) :
                obInfos[i][v] =>
                    \E k \in EntriesOf(i, "set") : obLog[k].var = SessionVars[v]

\* C30: the object applier processes schemas in the order of the schema
\* listing and, within each schema, object types in the order triggers,
\* views, procedures, functions; for each object the order is drop-if-exists,
\* fetch of the definition, a "set session" for each recorded session
\* variable that is non-empty, then the creation statement; and the objects
\* of a listing are processed one after the other.
C30_ObjectsInOrder ==
    /\ CallsInOrder
    /\ obPc = "done" => Len(obCalls) = NumSchemas * 4
    /\ \A k \in 1..Len(obLog) : obLog[k].obj \in 1..obCount
    /\ \A k \in 1..(Len(obLog) - 1) : obLog[k].obj <= obLog[k + 1].obj
    /\ \A i \in 1..obCount : ObjectInOrder(i)

C30_Witness ==
    /\ obCalls # <<>> /\ obCalls[Len(obCalls)] = <<NumSchemas, "function">>
    /\ obCount = 2 /\ obPc = "commit"
    /\ obInfos[1] = <<TRUE, FALSE, TRUE, FALSE>>
    /\ obInfos[2] = <<FALSE, FALSE, FALSE, FALSE>>
    /\ Len(obLog) = 8


\* The transactions begun for schema s.
TxOfSchema(s) == { i \in DOMAIN obTx : obTx[i].schema = s }

\* C31 as stated: the object applier begins exactly one transaction per
\* schema and commits it: never more than one for a schema, and one
\* committed transaction for every schema once the applier is through.
C31_AsStated ==
    /\ \A s \in 1..NumSchemas : Cardinality(TxOfSchema(s)) <= 1
    /\ obPc = "done" =>
          \A s \in 1..NumSchemas :
             /\ Cardinality(TxOfSchema(s)) = 1
             /\ \A i \in TxOfSchema(s) : obTx[i].state = "committed"

\* C31: every applyObjects call, one per schema and object type, runs in a
\* transaction of its own: the i-th transaction is the one of the i-th call,
\* only the latest one can be open, and once the applier is through there
\* is one committed transaction per schema and object type, four per schema.
C31_OneTransactionPerCall ==
    /\ \A i \in DOMAIN obTx :
          /\ <<obTx[i].schema, obTx[i].type>> = ObjectCall(i)
          /\ obTx[i].state = "open" => i = Len(obTx)
    /\ obPc = "done" =>
          /\ Len(obTx) = NumSchemas * Len(ObjectTypes)
          /\ \A i \in DOMAIN obTx : obTx[i].state = "committed"
          /\ \A s \in 1..NumSchemas :
                Cardinality(TxOfSchema(s)) = Len(ObjectTypes)

\* The applier is through, having created objects in its last call.
C31_Witness ==
    /\ obPc = "done"
    /\ Len(obTx) = NumSchemas * Len(ObjectTypes)
    /\ obLog # <<>>


\* The statements the server executed.
RECURSIVE Executed_Sets(_)
Executed_Sets(sets) ==
    IF sets = <<>> THEN <<>>
    ELSE (IF sets[1].ok THEN <<sets[1].value>> ELSE <<>>)
         \o Executed_Sets(Tail(sets))

\* The value the import flag has in the server, 0 before the run.
ImportFlagValue ==
    LET done == Executed_Sets(globalSets)
    IN  IF done = <<>> THEN 0 ELSE done[Len(done)]

\* C32: a run on 5.1 or 5.5 that returns from startClient leaves the import
\* flag it set to 1 at 0 again; a run on 5.6 or 10.x sends no "set global"
\* statement at all.
C32_FlagReset ==
    /\ (LegacyVersion(bootVersion) /\ bootExit = "exit0") =>
          /\ globalSets # <<>> /\ globalSets[1] = SetGlobal(1, TRUE)
          /\ ImportFlagValue = 0
    /\ ModernVersion(bootVersion) => globalSets = <<>>

-----------------------------------------------------------------------------
(* Claims about the progress reader over time *)

\* C33: any two draws that are not the final ones of finishProgress are at
\* least one draw interval apart, the draws of the first Read included.
C33_DrawsSpaced ==
    \A i, j \in DOMAIN draws :
        (i < j /\ ~draws[i].final /\ ~draws[j].final) =>
            draws[j].at - draws[i].at >= DefaultInterval

=============================================================================
